---- MODULE Spec2Model ----
(***************************************************************************)
(* Model of the TopoJSON decoder of mapbox-tileset-uploader                *)
(* (src/src/mtu/converters/topojson.py, TopoJSONConverter).                *)
(*                                                                         *)
(* Representation of the Python values:                                    *)
(*  - an optional value (a dict key that may be absent, a value that may   *)
(*    be None) is a sequence of length 0 (absent / None) or 1 (present);   *)
(*  - a point is <<x, y>>; an arc is a sequence of delta pairs; Python's   *)
(*    0-based list index k is the TLA+ index k + 1;                        *)
(*  - an insertion-ordered dict of objects is a sequence of                *)
(*    [name, value] entries with distinct names;                           *)
(*  - an opaque properties mapping is the set of its keys;                 *)
(*  - JSON nests "arcs"/"coordinates" at a depth that depends on the       *)
(*    geometry type; the model stores both at the MultiPolygon depth       *)
(*    (polygons -> rings -> items) and each branch of DecodeGeometry       *)
(*    reads and writes the levels its type uses.                           *)
(***************************************************************************)
EXTENDS Integers, Sequences, FiniteSets, TLC

VARIABLES
    topojson,      \* the topology passed to the call (the caller's object)
    object_name,   \* the object_name argument as passed by the caller
    pc,            \* position of convert(): idle, start, loop, done, raised
    source_object, \* convert's local object_name after selection (line 59/61)
    geometries,    \* convert's local geometries (line 73)
    features,      \* convert's local features (line 72)
    warnings,      \* convert's local warnings (line 39)
    result,        \* the ConversionResult returned, when one is returned
    error,         \* the exception raised, when one is raised
    arc_indices,   \* _decode_arcs: the arc_indices argument
    coordinates,   \* _decode_arcs: the local coordinates list
    apos,          \* _decode_arcs: number of loop iterations completed
    apc,           \* position of _decode_arcs(): idle, loop, done
    geojson,       \* validate: the geojson argument (the caller's object)
    options,       \* the GeometryValidator's configuration (self.*)
    shapely,       \* the shapely package: installed or not, and what it answers
    vpc,           \* position of validate(): idle, start, loop, return, done, raised
    val_warnings,  \* validate's local warnings (line 147)
    valid_count,   \* validate's local valid_count (line 148)
    total_count,   \* validate's local total_count (line 149)
    feature_i,     \* validate's loop index i (line 155)
    validation,    \* the ValidationResult returned, when one is returned
    legacy,        \* what convert_topojson_to_geojson made of the same call
    upc,           \* position of upload_from_file()
    dry_run,       \* upload_from_file: the dry_run argument
    validator,     \* the uploader's self._validator, if it has one
    file_path,     \* what the converter makes of the file at file_path
    upload_result, \* upload_from_file's local result (an UploadResult)
    geojson_path,  \* upload_from_file's local geojson_path, once bound
    temp_files,    \* the temporary files that exist on disk
    commands,      \* the tilesets commands run so far, in order
    pending,       \* the exception on its way through the finally block
    polls          \* _wait_for_job: polls made so far

vars == <<topojson, object_name, pc, source_object, geometries, features,
          warnings, result, error, arc_indices, coordinates, apos, apc,
          geojson, options, shapely, vpc, val_warnings, valid_count,
          total_count, feature_i, validation, legacy, upc, dry_run,
          validator, file_path, upload_result, geojson_path, temp_files,
          commands, pending, polls>>

convertVars == <<object_name, pc, source_object, geometries, features,
                 warnings, result, error>>

arcVars == <<arc_indices, coordinates, apos, apc>>

validateVars == <<geojson, options, shapely, vpc, val_warnings, valid_count,
                  total_count, feature_i, validation>>

legacyVars == <<legacy>>

uploadVars == <<upc, dry_run, validator, file_path, upload_result,
                geojson_path, temp_files, commands, pending, polls>>

----------------------------------------------------------------------------
(* Bounds of the explored inputs *)

MaxArcLen == 2

MaxChain == 2

MaxGeoms == 2

----------------------------------------------------------------------------
(* Python values *)

None == <<>>

Some(v) == <<v>>

\* dict.get(key, default) on an optional value
Get(m, default) == IF Len(m) = 0 THEN default ELSE m[1]

\* Python None where a string is expected (a type tag, a name)
PyNone == "<None>"

\* Python truthiness of an optional string: None and "" are falsy
Truthy(s) == s # PyNone /\ s # ""

RECURSIVE Reverse(_)
Reverse(s) == IF Len(s) = 0 THEN <<>> ELSE Append(Reverse(Tail(s)), Head(s))

\* float(n) of an integer n: every integer of magnitude below 2^53 is its
\* own IEEE double, and the explored coordinates are far below that
Float(n) == n

\* Python's ~i on integers
BitNot(i) == -1 - i

----------------------------------------------------------------------------
(* _transform_point, _decode_arc, _decode_arcs *)

TransformPointNoTranslate(point, transform) ==
    IF Len(transform) = 0
    THEN <<Float(point[1]), Float(point[2])>>
    ELSE LET scale == Get(transform[1].scale, <<1, 1>>)
         IN <<point[1] * scale[1], point[2] * scale[2]>>

TransformPoint(point, transform) ==
    IF Len(transform) = 0
    THEN <<Float(point[1]), Float(point[2])>>
    ELSE LET scale == Get(transform[1].scale, <<1, 1>>)
             translate == Get(transform[1].translate, <<0, 0>>)
         IN <<point[1] * scale[1] + translate[1],
              point[2] * scale[2] + translate[2]>>

\* the loop of _decode_arc from its k-th pair on, with accumulator (x, y)
RECURSIVE DecodeArcFrom(_, _, _, _, _)
DecodeArcFrom(arc, k, x, y, transform) ==
    IF k > Len(arc)
    THEN <<>>
    ELSE LET nx == x + arc[k][1]
             ny == y + arc[k][2]
         IN <<TransformPoint(<<nx, ny>>, transform)>>
                \o DecodeArcFrom(arc, k + 1, nx, ny, transform)

DecodeArc(arc, transform) == DecodeArcFrom(arc, 1, 0, 0, transform)

\* arcs[k].reverse(): reverses the stored arc itself
ReversedInPlace(arcs, k) ==
    [arc |-> Reverse(arcs[k]), arcs |-> [arcs EXCEPT ![k] = Reverse(arcs[k])]]

\* list(reversed(arcs[k])): a reversed copy; the arc list is left as it was
ReversedCopy(arcs, k) == [arc |-> Reverse(arcs[k]), arcs |-> arcs]

\* lines 177-180: the arc an index refers to, and the arc list afterwards
ResolveArc(arc_index, arcs) ==
    IF arc_index < 0
    THEN ReversedCopy(arcs, BitNot(arc_index) + 1)
    ELSE [arc |-> arcs[arc_index + 1], arcs |-> arcs]

DecodeArcsBodyNoDrop(acc, arc_index, arcs, transform) ==
    LET r == ResolveArc(arc_index, arcs)
    IN [coordinates |-> acc \o DecodeArc(r.arc, transform), arcs |-> r.arcs]

\* one iteration of the loop of _decode_arcs (lines 176-184)
DecodeArcsBody(acc, arc_index, arcs, transform) ==
    LET r == ResolveArc(arc_index, arcs)
        decoded_arc == DecodeArc(r.arc, transform)
        start == IF Len(acc) = 0 THEN 0 ELSE 1
    IN [coordinates |-> acc \o SubSeq(decoded_arc, start + 1, Len(decoded_arc)),
        arcs |-> r.arcs]

\* the loop of _decode_arcs from its k-th index on
RECURSIVE DecodeArcsFrom(_, _, _, _, _)
DecodeArcsFrom(indices, k, acc, arcs, transform) ==
    IF k > Len(indices)
    THEN [coordinates |-> acc, arcs |-> arcs]
    ELSE LET b == DecodeArcsBody(acc, indices[k], arcs, transform)
         IN DecodeArcsFrom(indices, k + 1, b.coordinates, b.arcs, transform)

DecodeArcs(indices, arcs, transform) ==
    DecodeArcsFrom(indices, 1, <<>>, arcs, transform)

----------------------------------------------------------------------------
(* Inputs of _decode_arcs *)

Deltas == {<<1, 0>>, <<-1, 2>>}

RECURSIVE SeqsUpTo(_, _)
SeqsUpTo(S, n) ==
    IF n = 0
    THEN {<<>>}
    ELSE LET shorter == SeqsUpTo(S, n - 1)
         IN shorter \cup {Append(s, e) : s \in shorter, e \in S}

ArcValues == SeqsUpTo(Deltas, MaxArcLen)

\* the arc of tests/test_converters.py and of the decoder scenario
TestArc == <<<<0, 0>>, <<1, 0>>, <<0, 1>>, <<-1, 0>>, <<0, -1>>>>

ArcLists ==
    {<<>>, <<TestArc>>}
        \cup {<<a>> : a \in ArcValues}
        \cup {<<a, b>> : a \in ArcValues, b \in ArcValues}

Transforms ==
    { None,
      Some([scale |-> None, translate |-> None]),
      Some([scale |-> Some(<<1, 1>>), translate |-> Some(<<0, 0>>)]),
      Some([scale |-> Some(<<2, 3>>), translate |-> None]),
      Some([scale |-> Some(<<2, 3>>), translate |-> Some(<<5, -7>>)]) }

\* the signed indices that resolve to an arc of the list
ArcIndices(arcs) == (-Len(arcs)) .. (Len(arcs) - 1)

Chains(arcs) == SeqsUpTo(ArcIndices(arcs), MaxChain)

----------------------------------------------------------------------------
(* _decode_arcs as a process: one action per loop iteration *)

\* validate is not running
ValidateIdle ==
    /\ geojson = <<>>
    /\ options = <<>>
    /\ shapely = <<>>
    /\ vpc = "idle"
    /\ val_warnings = <<>>
    /\ valid_count = 0
    /\ total_count = 0
    /\ feature_i = 0
    /\ validation = <<>>

\* convert_topojson_to_geojson has not been called
LegacyIdle == legacy = <<>>

\* upload_from_file is not running
UploadIdle ==
    /\ upc = "idle"
    /\ dry_run = FALSE
    /\ validator = <<>>
    /\ file_path = <<>>
    /\ upload_result = <<>>
    /\ geojson_path = <<>>
    /\ temp_files = {}
    /\ commands = <<>>
    /\ pending = ""
    /\ polls = 0

ConvertIdle ==
    /\ object_name = PyNone
    /\ pc = "idle"
    /\ source_object = PyNone
    /\ geometries = <<>>
    /\ features = <<>>
    /\ warnings = <<>>
    /\ result = None
    /\ error = None

ArcInit ==
    /\ topojson \in [type : {"Topology"}, objects : {None},
                     arcs : ArcLists, transform : Transforms]
    /\ arc_indices \in Chains(topojson.arcs)
    /\ coordinates = <<>>
    /\ apos = 0
    /\ apc = "loop"
    /\ ConvertIdle
    /\ ValidateIdle
    /\ LegacyIdle
    /\ UploadIdle

DecodeArcsIter ==
    /\ apc = "loop"
    /\ apos < Len(arc_indices)
    /\ LET b == DecodeArcsBody(coordinates, arc_indices[apos + 1],
                               topojson.arcs, topojson.transform)
       IN /\ coordinates' = b.coordinates
          /\ topojson' = [topojson EXCEPT !.arcs = b.arcs]
    /\ apos' = apos + 1
    /\ UNCHANGED <<arc_indices, apc>>
    /\ UNCHANGED convertVars
    /\ UNCHANGED validateVars
    /\ UNCHANGED legacyVars
    /\ UNCHANGED uploadVars

DecodeArcsReturn ==
    /\ apc = "loop"
    /\ apos = Len(arc_indices)
    /\ apc' = "done"
    /\ UNCHANGED <<topojson, arc_indices, coordinates, apos>>
    /\ UNCHANGED convertVars
    /\ UNCHANGED validateVars
    /\ UNCHANGED legacyVars
    /\ UNCHANGED uploadVars

ArcNext == DecodeArcsIter \/ DecodeArcsReturn

ArcSpec == ArcInit /\ [][ArcNext]_vars

----------------------------------------------------------------------------
(* _decode_geometry *)

OutGeometry(type, coords, geoms) ==
    [type |-> type, coordinates |-> coords, geometries |-> geoms]

\* [self._transform_point(c, transform) for c in coords]
RECURSIVE TransformPoints(_, _)
TransformPoints(coords, transform) ==
    IF Len(coords) = 0
    THEN <<>>
    ELSE <<TransformPoint(Head(coords), transform)>>
            \o TransformPoints(Tail(coords), transform)

\* [self._decode_arcs(ring, arcs, transform) for ring in arc_groups],
\* from the k-th group on
RECURSIVE DecodeGroupsFrom(_, _, _, _, _)
DecodeGroupsFrom(arc_groups, k, acc, arcs, transform) ==
    IF k > Len(arc_groups)
    THEN [coordinates |-> acc, arcs |-> arcs]
    ELSE LET d == DecodeArcs(arc_groups[k], arcs, transform)
         IN DecodeGroupsFrom(arc_groups, k + 1, Append(acc, d.coordinates),
                             d.arcs, transform)

\* [[self._decode_arcs(ring, ...) for ring in polygon]
\*  for polygon in polygon_groups], from the k-th polygon on
RECURSIVE DecodePolygonsFrom(_, _, _, _, _)
DecodePolygonsFrom(polygon_groups, k, acc, arcs, transform) ==
    IF k > Len(polygon_groups)
    THEN [coordinates |-> acc, arcs |-> arcs]
    ELSE LET d == DecodeGroupsFrom(polygon_groups[k], 1, <<>>, arcs, transform)
         IN DecodePolygonsFrom(polygon_groups, k + 1,
                               Append(acc, d.coordinates), d.arcs, transform)

IsNullTypeStringOnly(geom_type) == geom_type = "null"

\* line 113: geom_type is None or geom_type == "null"
IsNullType(geom_type) == geom_type = PyNone \/ geom_type = "null"

Returned(g, arcs) == [raised |-> FALSE, geometry |-> g, arcs |-> arcs]

Raised(arcs) == [raised |-> TRUE, geometry |-> None, arcs |-> arcs]

\* _decode_geometry: the GeoJSON geometry (or None), whether it raised
\* "Unknown geometry type", and the arc list afterwards
RECURSIVE DecodeGeometry(_, _, _), DecodeChildrenFrom(_, _, _, _, _)
DecodeGeometry(geometry, arcs, transform) ==
    LET geom_type == geometry.type
    IN IF IsNullType(geom_type)
       THEN Returned(None, arcs)
       ELSE IF geom_type = "Point"
       THEN Returned(Some(OutGeometry("Point",
                <<<<<<TransformPoint(geometry.coordinates[1], transform)>>>>>>,
                <<>>)), arcs)
       ELSE IF geom_type = "MultiPoint"
       THEN Returned(Some(OutGeometry("MultiPoint",
                <<<<TransformPoints(geometry.coordinates, transform)>>>>,
                <<>>)), arcs)
       ELSE IF geom_type = "LineString"
       THEN LET d == DecodeArcs(geometry.arcs[1][1], arcs, transform)
            IN Returned(Some(OutGeometry("LineString",
                                         <<<<d.coordinates>>>>, <<>>)), d.arcs)
       ELSE IF geom_type = "MultiLineString"
       THEN LET d == DecodeGroupsFrom(geometry.arcs[1], 1, <<>>, arcs, transform)
            IN Returned(Some(OutGeometry("MultiLineString",
                                         <<d.coordinates>>, <<>>)), d.arcs)
       ELSE IF geom_type = "Polygon"
       THEN LET d == DecodeGroupsFrom(geometry.arcs[1], 1, <<>>, arcs, transform)
            IN Returned(Some(OutGeometry("Polygon",
                                         <<d.coordinates>>, <<>>)), d.arcs)
       ELSE IF geom_type = "MultiPolygon"
       THEN LET d == DecodePolygonsFrom(geometry.arcs, 1, <<>>, arcs, transform)
            IN Returned(Some(OutGeometry("MultiPolygon",
                                         d.coordinates, <<>>)), d.arcs)
       ELSE IF geom_type = "GeometryCollection"
       THEN LET d == DecodeChildrenFrom(Get(geometry.geometries, <<>>), 1,
                                        <<>>, arcs, transform)
            IN IF d.raised
               THEN Raised(d.arcs)
               ELSE Returned(Some(OutGeometry("GeometryCollection",
                                              <<>>, d.geometries)), d.arcs)
       ELSE Raised(arcs)

\* [self._decode_geometry(g, arcs, transform) for g in geometries], from
\* the k-th child on; an exception ends the comprehension
DecodeChildrenFrom(children, k, acc, arcs, transform) ==
    IF k > Len(children)
    THEN [raised |-> FALSE, geometries |-> acc, arcs |-> arcs]
    ELSE LET d == DecodeGeometry(children[k], arcs, transform)
         IN IF d.raised
            THEN [raised |-> TRUE, geometries |-> <<>>, arcs |-> d.arcs]
            ELSE DecodeChildrenFrom(children, k + 1, Append(acc, d.geometry),
                                    d.arcs, transform)

----------------------------------------------------------------------------
(* convert *)

MsgNotTopology == "Input is not a valid TopoJSON (missing 'Topology' type)"

MsgNoObjects == "TopoJSON contains no objects"

MsgObjectNotFound == "Object '{object_name}' not found in TopoJSON"

MsgUnknownType == "Unknown geometry type: {geom_type}"

ValueError(message) == Some([exception |-> "ValueError", message |-> message])

HasKey(objects, name) == \E k \in 1 .. Len(objects) : objects[k].name = name

Lookup(objects, name) ==
    objects[CHOOSE k \in 1 .. Len(objects) : objects[k].name = name].value

RECURSIVE Keys(_)
Keys(objects) ==
    IF Len(objects) = 0 THEN <<>> ELSE <<Head(objects).name>> \o Keys(Tail(objects))

PreconditionsObjectsFirst(topo) ==
    IF Len(Get(topo.objects, <<>>)) = 0
    THEN ValueError(MsgNoObjects)
    ELSE IF topo.type # "Topology"
    THEN ValueError(MsgNotTopology)
    ELSE None

\* lines 48-53: the exception the two entry checks raise, if any
Preconditions(topo) ==
    IF topo.type # "Topology"
    THEN ValueError(MsgNotTopology)
    ELSE IF Len(Get(topo.objects, <<>>)) = 0
    THEN ValueError(MsgNoObjects)
    ELSE None

SelectionWarningsAlways(objects, name) ==
    <<[message |-> "Multiple objects found", using |-> name,
       available |-> Keys(objects)]>>

\* lines 62-66: the warning appended when no name was given
SelectionWarnings(objects, name) ==
    IF Len(objects) > 1
    THEN <<[message |-> "Multiple objects found", using |-> name,
            available |-> Keys(objects)]>>
    ELSE <<>>

\* lines 56-67: the selected name and object, the warnings, or the raise
SelectObject(objects, name) ==
    IF Truthy(name)
    THEN IF ~HasKey(objects, name)
         THEN [raised |-> TRUE, source_object |-> name, warnings |-> <<>>,
               obj |-> None]
         ELSE [raised |-> FALSE, source_object |-> name, warnings |-> <<>>,
               obj |-> Some(Lookup(objects, name))]
    ELSE LET first == objects[1].name
         IN [raised |-> FALSE, source_object |-> first,
             warnings |-> SelectionWarnings(objects, first),
             obj |-> Some(Lookup(objects, first))]

\* line 73: obj.get("geometries", [obj])
GeometriesOf(obj) == Get(obj.geometries, <<obj>>)

MakeFeatureNoProperties(geometry, decoded) ==
    [type |-> "Feature", properties |-> {}, geometry |-> decoded,
     id |-> geometry.id]

\* lines 76-82: the feature dict; the "id" key exists iff the geometry has one
MakeFeature(geometry, decoded) ==
    [type |-> "Feature", properties |-> Get(geometry.properties, {}),
     geometry |-> decoded, id |-> geometry.id]

\* lines 85-93
MakeResult(feats, warns, name) ==
    [geojson |-> [type |-> "FeatureCollection", features |-> feats],
     source_format |-> "TopoJSON",
     feature_count |-> Len(feats),
     warnings |-> warns,
     metadata |-> [source_object |-> name]]

ArcsIdle ==
    /\ arc_indices = <<>>
    /\ coordinates = <<>>
    /\ apos = 0
    /\ apc = "idle"

\* lines 39-73: the entry checks and the selection of the object
ConvertBegin ==
    /\ pc = "start"
    /\ LET pre == Preconditions(topojson)
           sel == SelectObject(Get(topojson.objects, <<>>), object_name)
       IN IF Len(pre) > 0
          THEN /\ pc' = "raised"
               /\ error' = pre
               /\ UNCHANGED <<source_object, geometries, warnings>>
          ELSE IF sel.raised
          THEN /\ pc' = "raised"
               /\ error' = ValueError(MsgObjectNotFound)
               /\ UNCHANGED <<source_object, geometries, warnings>>
          ELSE /\ pc' = "loop"
               /\ source_object' = sel.source_object
               /\ warnings' = sel.warnings
               /\ geometries' = GeometriesOf(sel.obj[1])
               /\ UNCHANGED error
    /\ features' = <<>>
    /\ UNCHANGED <<topojson, object_name, result>>
    /\ UNCHANGED arcVars
    /\ UNCHANGED legacyVars
    /\ UNCHANGED uploadVars
    /\ UNCHANGED validateVars

\* lines 75-83: one iteration of the loop over geometries
ConvertFeature ==
    /\ pc = "loop"
    /\ Len(features) < Len(geometries)
    /\ LET geometry == geometries[Len(features) + 1]
           d == DecodeGeometry(geometry, topojson.arcs, topojson.transform)
       IN /\ topojson' = [topojson EXCEPT !.arcs = d.arcs]
          /\ IF d.raised
             THEN /\ pc' = "raised"
                  /\ error' = ValueError(MsgUnknownType)
                  /\ UNCHANGED features
             ELSE /\ features' = Append(features, MakeFeature(geometry, d.geometry))
                  /\ UNCHANGED <<pc, error>>
    /\ UNCHANGED <<object_name, source_object, geometries, warnings, result>>
    /\ UNCHANGED arcVars
    /\ UNCHANGED legacyVars
    /\ UNCHANGED uploadVars
    /\ UNCHANGED validateVars

\* lines 85-93: the ConversionResult is built and returned
ConvertReturn ==
    /\ pc = "loop"
    /\ Len(features) = Len(geometries)
    /\ result' = Some(MakeResult(features, warnings, source_object))
    /\ pc' = "done"
    /\ UNCHANGED <<topojson, object_name, source_object, geometries, features,
                   warnings, error>>
    /\ UNCHANGED arcVars
    /\ UNCHANGED legacyVars
    /\ UNCHANGED uploadVars
    /\ UNCHANGED validateVars

----------------------------------------------------------------------------
(* convert_topojson_to_geojson and its helpers, the module-level functions *)
(* of src/src/mapbox_tileset_uploader/converter.py                         *)

\* _transform_point (converter.py lines 159-176)
FnTransformPoint(point, transform) ==
    IF Len(transform) = 0
    THEN <<Float(point[1]), Float(point[2])>>
    ELSE <<point[1] * Get(transform[1].scale, <<1, 1>>)[1]
               + Get(transform[1].translate, <<0, 0>>)[1],
           point[2] * Get(transform[1].scale, <<1, 1>>)[2]
               + Get(transform[1].translate, <<0, 0>>)[2]>>

\* _decode_arc (converter.py lines 144-156): the loop from the k-th pair on,
\* x and y being the sums so far
RECURSIVE FnDecodeArcFrom(_, _, _, _, _)
FnDecodeArcFrom(arc, k, x, y, transform) ==
    IF k > Len(arc)
    THEN <<>>
    ELSE <<FnTransformPoint(<<x + arc[k][1], y + arc[k][2]>>, transform)>>
            \o FnDecodeArcFrom(arc, k + 1, x + arc[k][1], y + arc[k][2],
                               transform)

FnDecodeArc(arc, transform) == FnDecodeArcFrom(arc, 1, 0, 0, transform)

\* converter.py lines 130-133: the arc an index refers to
FnArc(arc_index, arcs) ==
    IF arc_index < 0
    THEN Reverse(arcs[BitNot(arc_index) + 1])
    ELSE arcs[arc_index + 1]

\* a loop body that keeps the first point of every arc
FnExtendedKeepingFirst(acc, decoded_arc) == acc \o decoded_arc

\* converter.py lines 139-140: start = 0 if not coordinates else 1;
\* coordinates.extend(decoded_arc[start:])
FnExtended(acc, decoded_arc) ==
    acc \o SubSeq(decoded_arc, (IF Len(acc) = 0 THEN 0 ELSE 1) + 1,
                  Len(decoded_arc))

\* _decode_arcs (converter.py lines 121-142): the loop from the k-th index on
RECURSIVE FnDecodeArcsFrom(_, _, _, _, _)
FnDecodeArcsFrom(indices, k, acc, arcs, transform) ==
    IF k > Len(indices)
    THEN acc
    ELSE FnDecodeArcsFrom(indices, k + 1,
             FnExtended(acc, FnDecodeArc(FnArc(indices[k], arcs), transform)),
             arcs, transform)

FnDecodeArcs(indices, arcs, transform) ==
    FnDecodeArcsFrom(indices, 1, <<>>, arcs, transform)

\* [_decode_arcs(ring, arcs, transform) for ring in arc_groups]
FnDecodeGroups(arc_groups, arcs, transform) ==
    [k \in 1 .. Len(arc_groups) |-> FnDecodeArcs(arc_groups[k], arcs, transform)]

\* the outcome of a function of converter.py: a value, or an exception
FnReturned(value) == [raised |-> FALSE, value |-> value]

FnRaised == [raised |-> TRUE, value |-> None]

\* _decode_geometry (converter.py lines 58-118) and the comprehension over
\* the children of a GeometryCollection, which the first exception ends
RECURSIVE FnDecodeGeometry(_, _, _), FnDecodeChildrenFrom(_, _, _, _, _)
FnDecodeGeometry(geometry, arcs, transform) ==
    IF geometry.type = PyNone \/ geometry.type = "null"
    THEN FnReturned(None)
    ELSE IF geometry.type = "Point"
    THEN FnReturned(Some(OutGeometry("Point",
             <<<<<<FnTransformPoint(geometry.coordinates[1], transform)>>>>>>,
             <<>>)))
    ELSE IF geometry.type = "MultiPoint"
    THEN FnReturned(Some(OutGeometry("MultiPoint",
             <<<<[k \in 1 .. Len(geometry.coordinates) |->
                     FnTransformPoint(geometry.coordinates[k], transform)]>>>>,
             <<>>)))
    ELSE IF geometry.type = "LineString"
    THEN FnReturned(Some(OutGeometry("LineString",
             <<<<FnDecodeArcs(geometry.arcs[1][1], arcs, transform)>>>>, <<>>)))
    ELSE IF geometry.type = "MultiLineString"
    THEN FnReturned(Some(OutGeometry("MultiLineString",
             <<FnDecodeGroups(geometry.arcs[1], arcs, transform)>>, <<>>)))
    ELSE IF geometry.type = "Polygon"
    THEN FnReturned(Some(OutGeometry("Polygon",
             <<FnDecodeGroups(geometry.arcs[1], arcs, transform)>>, <<>>)))
    ELSE IF geometry.type = "MultiPolygon"
    THEN FnReturned(Some(OutGeometry("MultiPolygon",
             [k \in 1 .. Len(geometry.arcs) |->
                 FnDecodeGroups(geometry.arcs[k], arcs, transform)],
             <<>>)))
    ELSE IF geometry.type = "GeometryCollection"
    THEN FnDecodeChildrenFrom(Get(geometry.geometries, <<>>), 1, <<>>,
                              arcs, transform)
    ELSE FnRaised

FnDecodeChildrenFrom(children, k, acc, arcs, transform) ==
    IF k > Len(children)
    THEN FnReturned(Some(OutGeometry("GeometryCollection", <<>>, acc)))
    ELSE IF FnDecodeGeometry(children[k], arcs, transform).raised
    THEN FnRaised
    ELSE FnDecodeChildrenFrom(children, k + 1,
             Append(acc, FnDecodeGeometry(children[k], arcs, transform).value),
             arcs, transform)

\* converter.py lines 46-53: the feature dict of a geometry
FnFeature(geometry, decoded) ==
    [type |-> "Feature", properties |-> Get(geometry.properties, {}),
     geometry |-> decoded, id |-> geometry.id]

\* converter.py lines 45-54: the loop over the geometries from the k-th on
RECURSIVE FnFeaturesFrom(_, _, _, _, _)
FnFeaturesFrom(geoms, k, acc, arcs, transform) ==
    IF k > Len(geoms)
    THEN FnReturned(Some([type |-> "FeatureCollection", features |-> acc]))
    ELSE IF FnDecodeGeometry(geoms[k], arcs, transform).raised
    THEN FnRaised
    ELSE FnFeaturesFrom(geoms, k + 1,
             Append(acc, FnFeature(geoms[k],
                            FnDecodeGeometry(geoms[k], arcs, transform).value)),
             arcs, transform)

\* converter.py lines 30-37: the object to convert, if there is one
FnObject(objects, name) ==
    IF Truthy(name)
    THEN IF \E k \in 1 .. Len(objects) : objects[k].name = name
         THEN Some(objects[CHOOSE k \in 1 .. Len(objects) :
                               objects[k].name = name].value)
         ELSE None
    ELSE Some(objects[1].value)

\* convert_topojson_to_geojson (converter.py lines 9-55)
ConvertTopojsonToGeojson(topo, name) ==
    IF topo.type # "Topology"
    THEN FnRaised
    ELSE IF Len(Get(topo.objects, <<>>)) = 0
    THEN FnRaised
    ELSE IF FnObject(topo.objects[1], name) = None
    THEN FnRaised
    ELSE FnFeaturesFrom(
             Get(FnObject(topo.objects[1], name)[1].geometries,
                 <<FnObject(topo.objects[1], name)[1]>>),
             1, <<>>, topo.arcs, topo.transform)

\* the caller hands the same topology and object_name to
\* convert_topojson_to_geojson once TopoJSONConverter.convert has ended
LegacyConvert ==
    /\ pc \in {"done", "raised"}
    /\ legacy = None
    /\ legacy' = Some(ConvertTopojsonToGeojson(topojson, object_name))
    /\ UNCHANGED topojson
    /\ UNCHANGED convertVars
    /\ UNCHANGED arcVars
    /\ UNCHANGED uploadVars
    /\ UNCHANGED validateVars

----------------------------------------------------------------------------
(* Inputs of convert *)

\* a TopoJSON geometry object without "properties" and "id"
Geometry(type, coords, arc_refs, geoms) ==
    [type |-> type, coordinates |-> coords, arcs |-> arc_refs,
     geometries |-> geoms, properties |-> None, id |-> None]

Point(p) == Geometry("Point", <<p>>, <<>>, None)

MultiPoint(ps) == Geometry("MultiPoint", ps, <<>>, None)

LineString(chain) == Geometry("LineString", <<>>, <<<<chain>>>>, None)

MultiLineString(chains) == Geometry("MultiLineString", <<>>, <<chains>>, None)

Polygon(rings) == Geometry("Polygon", <<>>, <<rings>>, None)

MultiPolygon(polygons) == Geometry("MultiPolygon", <<>>, polygons, None)

GeometryCollection(geoms) ==
    Geometry("GeometryCollection", <<>>, <<>>, Some(geoms))

Tagged(type) == Geometry(type, <<>>, <<>>, None)

WithProperties(g, props) == [g EXCEPT !.properties = Some(props)]

WithId(g, id) == [g EXCEPT !.id = Some(id)]

SecondArc == <<<<0, 0>>, <<2, 1>>>>

\* the arc list of the explored topologies: indices 0, 1, -1, -2 are valid
TopologyArcs == <<TestArc, SecondArc>>

\* the polygon of tests/test_converters.py test_convert_simple_polygon
TestPolygon == WithProperties(Polygon(<<<<0>>>>), {"name"})

GeometryMenu ==
    { WithId(WithProperties(Point(<<3, 4>>), {"name"}), 7),
      MultiPoint(<<<<1, 1>>, <<2, 2>>>>),
      WithProperties(LineString(<<-1>>), {}),
      WithId(LineString(<<0, 1>>), 8),
      MultiLineString(<<<<1>>, <<-2>>>>),
      TestPolygon,
      MultiPolygon(<<<<<<0>>>>, <<<<-1>>, <<1>>>>>>),
      WithId(Tagged(PyNone), 9),
      Tagged("null"),
      Tagged("Circle"),
      GeometryCollection(<<Tagged(PyNone), Point(<<3, 4>>)>>),
      GeometryCollection(<<Point(<<3, 4>>),
                           GeometryCollection(<<Tagged("Circle")>>)>>) }

\* an object whose own tag is not a geometry type but which has a
\* "geometries" list
UntypedCollection ==
    [GeometryCollection(<<Point(<<3, 4>>)>>) EXCEPT !.type = "Layer"]

ObjectValues ==
    GeometryMenu
        \cup {UntypedCollection}
        \cup {GeometryCollection(l) : l \in SeqsUpTo(GeometryMenu, MaxGeoms)}

Entry(name, value) == [name |-> name, value |-> value]

\* objects that tell the selected object from the others
SmallObjects ==
    { GeometryCollection(<<>>),
      GeometryCollection(<<WithProperties(Point(<<0, 0>>), {"Country"})>>),
      GeometryCollection(<<WithProperties(Point(<<1, 1>>), {"City"}),
                           LineString(<<-1>>)>>) }

ObjectMaps ==
    {None, Some(<<>>)}
        \cup {Some(<<Entry("a", o)>>) : o \in ObjectValues}
        \cup {Some(<<Entry("test", GeometryCollection(<<TestPolygon>>))>>)}
        \cup {Some(<<Entry("a", o1), Entry("b", o2)>>) :
                  o1 \in SmallObjects, o2 \in SmallObjects}
        \cup {Some(<<Entry("b", o2), Entry("c", o1), Entry("a", o1)>>) :
                  o1 \in SmallObjects, o2 \in SmallObjects}

ObjectNames == {PyNone, "", "a", "b", "zz"}

Topologies ==
    [type : {"Topology", "FeatureCollection", PyNone},
     objects : ObjectMaps,
     arcs : {TopologyArcs},
     transform : {None, Some([scale |-> Some(<<2, 3>>),
                              translate |-> Some(<<5, -7>>)])}]

Init ==
    /\ topojson \in Topologies
    /\ object_name \in ObjectNames
    /\ pc = "start"
    /\ source_object = PyNone
    /\ geometries = <<>>
    /\ features = <<>>
    /\ warnings = <<>>
    /\ result = None
    /\ error = None
    /\ ArcsIdle
    /\ ValidateIdle
    /\ LegacyIdle
    /\ UploadIdle

Next == ConvertBegin \/ ConvertFeature \/ ConvertReturn \/ LegacyConvert

Spec == Init /\ [][Next]_vars

----------------------------------------------------------------------------
(* Claims about _decode_arcs, _decode_arc and _transform_point (ArcSpec) *)

\* the stored arc a signed index refers to: arc i, or arc -1-i when i < 0
ReferredArc(i) == topojson.arcs[(IF i < 0 THEN BitNot(i) ELSE i) + 1]

\* the delta pairs _decode_arc is handed for index i (lines 177-180)
HandedArc(i) == IF i < 0 THEN Reverse(ReferredArc(i)) ELSE ReferredArc(i)

RECURSIVE PrefixSum(_, _, _)
PrefixSum(arc, k, c) ==
    IF k = 0 THEN 0 ELSE PrefixSum(arc, k - 1, c) + arc[k][c]

\* the absolute points of an arc: running sums of its pairs, transformed
AbsolutePoints(arc) ==
    LET t == topojson.transform
        sx == IF Len(t) = 0 \/ Len(t[1].scale) = 0 THEN 1 ELSE t[1].scale[1][1]
        sy == IF Len(t) = 0 \/ Len(t[1].scale) = 0 THEN 1 ELSE t[1].scale[1][2]
        tx == IF Len(t) = 0 \/ Len(t[1].translate) = 0
              THEN 0 ELSE t[1].translate[1][1]
        ty == IF Len(t) = 0 \/ Len(t[1].translate) = 0
              THEN 0 ELSE t[1].translate[1][2]
    IN [k \in 1 .. Len(arc) |->
          <<PrefixSum(arc, k, 1) * sx + tx, PrefixSum(arc, k, 2) * sy + ty>>]

\* C1: for every arc list and every negative arc index i, decoding the
\* chain [i] yields the absolute points of arc -1-i in reverse point order,
\* with and without a transform.  (Stated as claimed; the code reverses the
\* delta pairs before summing them, so this is violated.)
C1_NegativeIndexReversesPoints ==
    (apc = "done" /\ Len(arc_indices) = 1 /\ arc_indices[1] < 0)
        => coordinates = Reverse(AbsolutePoints(ReferredArc(arc_indices[1])))

RECURSIVE SumOfSizes(_)
SumOfSizes(indices) ==
    IF Len(indices) = 0
    THEN 0
    ELSE Len(ReferredArc(Head(indices))) + SumOfSizes(Tail(indices))

\* C2: a chain of k >= 1 non-empty arcs with sizes n_1..n_k decodes to
\* n_1 + ... + n_k - (k - 1) points; two arcs of n and m pairs give n + m - 1.
C2_ChainPointCount ==
    ( /\ apc = "done"
      /\ Len(arc_indices) >= 1
      /\ \A k \in 1 .. Len(arc_indices) : Len(ReferredArc(arc_indices[k])) >= 1 )
        => Len(coordinates) = SumOfSizes(arc_indices) - (Len(arc_indices) - 1)

C2_Witness ==
    /\ apc = "done"
    /\ Len(arc_indices) = 2
    /\ arc_indices[1] # arc_indices[2]
    /\ Len(ReferredArc(arc_indices[1])) = 2
    /\ Len(ReferredArc(arc_indices[2])) = 2
    /\ Len(coordinates) = 3

DropFirst(s) == SubSeq(s, 2, Len(s))

\* the chain the claim describes: the first arc's points in full, then
\* every later arc's points without their first point
RECURSIVE LaterArcs(_, _)
LaterArcs(indices, k) ==
    IF k > Len(indices)
    THEN <<>>
    ELSE DropFirst(AbsolutePoints(HandedArc(indices[k])))
            \o LaterArcs(indices, k + 1)

\* C3: the output of _decode_arcs is the full decoded point sequence of the
\* first arc of the chain followed, for every later arc in chain order, by
\* that arc's decoded points with its first point dropped, whatever the
\* arcs are, chains whose leading arcs are empty included.  (Stated as
\* claimed; the code drops by "output so far is non-empty", so this is
\* violated.)
C3_DropByChainPosition ==
    (apc = "done" /\ Len(arc_indices) >= 1)
        => coordinates = AbsolutePoints(HandedArc(arc_indices[1]))
                            \o LaterArcs(arc_indices, 2)

\* C4: _decode_arc emits one point per delta pair, the k-th being the
\* transform of the sum of the first k pairs; without a transform, or with
\* scale (1,1) and translate (0,0), the points are the raw prefix sums, and
\* the test arc decodes to 5 points ending back at (0,0).
C4_DecodeArcPrefixSums ==
    (apc = "done" /\ Len(arc_indices) = 1 /\ arc_indices[1] >= 0)
        => LET arc == ReferredArc(arc_indices[1])
               t == topojson.transform
               unit == Some([scale |-> Some(<<1, 1>>),
                             translate |-> Some(<<0, 0>>)])
           IN /\ Len(coordinates) = Len(arc)
              /\ coordinates = AbsolutePoints(arc)
              /\ (t = None \/ t = unit)
                    => \A k \in 1 .. Len(arc) :
                          coordinates[k] = <<PrefixSum(arc, k, 1),
                                             PrefixSum(arc, k, 2)>>
              /\ (arc = TestArc /\ (t = None \/ t = unit))
                    => coordinates = <<<<0, 0>>, <<1, 0>>, <<1, 1>>,
                                       <<0, 1>>, <<0, 0>>>>

C4_Witness ==
    /\ apc = "done"
    /\ arc_indices = <<0>>
    /\ topojson.arcs = <<TestArc>>
    /\ topojson.transform = Some([scale |-> Some(<<2, 3>>),
                                  translate |-> Some(<<5, -7>>)])
    /\ Len(coordinates) = 5
    /\ coordinates[2] = <<7, -7>>
    /\ coordinates[5] = <<5, -7>>

----------------------------------------------------------------------------
(* Claims about convert and _decode_geometry (Spec) *)

GivenObjects == Get(topojson.objects, <<>>)

\* the entry checks of convert passed: a Topology with at least one object
WellFormed == topojson.type = "Topology" /\ Len(GivenObjects) > 0

NamesOf(objects) == [k \in 1 .. Len(objects) |-> objects[k].name]

\* the object stored under a name
ObjectNamed(name) ==
    LET k == CHOOSE i \in 1 .. Len(GivenObjects) : GivenObjects[i].name = name
    IN GivenObjects[k].value

\* the geometries an object contributes: its list, or itself
Contributed(obj) ==
    IF Len(obj.geometries) = 0 THEN <<obj>> ELSE obj.geometries[1]

\* the two failures the specification classes as StructuralError and the
\* two it classes as ReferenceError; the code raises ValueError for all
\* four and tells them apart by message
StructuralError == {ValueError(MsgNotTopology), ValueError(MsgNoObjects)}

ReferenceError == {ValueError(MsgObjectNotFound), ValueError(MsgUnknownType)}

\* C5: convert fails with a StructuralError, with no result and no
\* warnings, whenever the root type is not "Topology" or objects is absent
\* or empty; the root-type failure takes precedence.
C5_StructuralFailures ==
    pc # "start" =>
        /\ topojson.type # "Topology" =>
              /\ pc = "raised"
              /\ error = ValueError(MsgNotTopology)
        /\ (topojson.type = "Topology" /\ Len(GivenObjects) = 0) =>
              /\ pc = "raised"
              /\ error = ValueError(MsgNoObjects)
        /\ ~WellFormed =>
              /\ error \in StructuralError
              /\ result = None
              /\ features = <<>>
              /\ warnings = <<>>

C5_Witness ==
    /\ pc = "raised"
    /\ topojson.type = "FeatureCollection"
    /\ topojson.objects = Some(<<>>)
    /\ error = ValueError(MsgNotTopology)
    /\ result = None

\* C6: when object_name is given: if it is absent from objects, convert
\* fails with a ReferenceError and no result; if it is present, the
\* features are decoded from exactly that object, with no selection
\* warning.  (Stated as claimed; the code tests the truthiness of
\* object_name, so the given name "" is treated as omitted and this is
\* violated.)
C6_NamedObject ==
    (pc # "start" /\ WellFormed /\ object_name # PyNone) =>
        IF \A k \in 1 .. Len(GivenObjects) : GivenObjects[k].name # object_name
        THEN /\ pc = "raised"
             /\ error = ValueError(MsgObjectNotFound)
             /\ error \in ReferenceError \ StructuralError
             /\ result = None
        ELSE /\ source_object = object_name
             /\ geometries = Contributed(ObjectNamed(object_name))
             /\ warnings = <<>>
             /\ error # ValueError(MsgObjectNotFound)

\* C7: when object_name is omitted, convert selects the first object in
\* insertion order and emits exactly one warning, naming the selected
\* object and all object names, iff objects has more than one entry.
C7_DefaultSelection ==
    (pc # "start" /\ WellFormed /\ object_name = PyNone) =>
        /\ source_object = GivenObjects[1].name
        /\ geometries = Contributed(GivenObjects[1].value)
        /\ Len(warnings) = (IF Len(GivenObjects) > 1 THEN 1 ELSE 0)
        /\ Len(GivenObjects) > 1 =>
              /\ warnings[1].using = GivenObjects[1].name
              /\ warnings[1].available = NamesOf(GivenObjects)
        /\ pc = "done" =>
              /\ result[1].warnings = warnings
              /\ result[1].metadata.source_object = GivenObjects[1].name

C7_Witness ==
    /\ pc = "done"
    /\ object_name = PyNone
    /\ Len(GivenObjects) = 3
    /\ Len(result[1].warnings) = 1
    /\ result[1].warnings[1].using = "b"
    /\ result[1].warnings[1].available = <<"b", "c", "a">>

GeometryTypes ==
    {"Point", "MultiPoint", "LineString", "MultiLineString", "Polygon",
     "MultiPolygon", "GeometryCollection"}

IsNullGeometry(g) == g.type = PyNone \/ g.type = "null"

\* a tag outside the eight variants, in the geometry or in a descendant
RECURSIVE HasUnknownTag(_)
HasUnknownTag(g) ==
    IF IsNullGeometry(g)
    THEN FALSE
    ELSE IF g.type = "GeometryCollection"
    THEN \E j \in 1 .. Len(Contributed(g)) :
            Len(g.geometries) > 0 /\ HasUnknownTag(g.geometries[1][j])
    ELSE g.type \notin GeometryTypes

\* the decoded geometry has the input's shape: null for Null, the same tag
\* otherwise, and a collection's children matched one by one in order
RECURSIVE SameShape(_, _)
SameShape(g, out) ==
    IF IsNullGeometry(g)
    THEN out = None
    ELSE /\ Len(out) = 1
         /\ out[1].type = g.type
         /\ g.type = "GeometryCollection" =>
               LET children == Get(g.geometries, <<>>)
               IN /\ Len(out[1].geometries) = Len(children)
                  /\ \A j \in 1 .. Len(children) :
                        SameShape(children[j], out[1].geometries[j])

\* C8: _decode_geometry is total over the seven geometry types and Null: a
\* Null or absent type yields a null geometry without error, also as a
\* child of a GeometryCollection with order preserved, while any other tag
\* at any nesting depth makes the whole convert call fail with a
\* ReferenceError and no features.
C8_DecodeGeometryTotal ==
    /\ pc \in {"loop", "done"} =>
          \A k \in 1 .. Len(features) :
              /\ ~HasUnknownTag(geometries[k])
              /\ SameShape(geometries[k], features[k].geometry)
    /\ pc = "done" => Len(features) = Len(geometries)
    /\ (pc = "raised" /\ WellFormed /\ error # ValueError(MsgObjectNotFound)) =>
          /\ error = ValueError(MsgUnknownType)
          /\ error \in ReferenceError
          /\ HasUnknownTag(geometries[Len(features) + 1])
          /\ result = None

C8_Witness ==
    /\ pc = "done"
    /\ Len(features) = 2
    /\ geometries[1].type = PyNone
    /\ features[1].geometry = None
    /\ geometries[2] = GeometryCollection(<<Tagged(PyNone), Point(<<3, 4>>)>>)
    /\ features[2].geometry[1].geometries[1] = None
    /\ features[2].geometry[1].geometries[2][1].type = "Point"

\* the decoded test polygon: one ring of 5 points closing back to (0,0)
TestPolygonFeature ==
    [type |-> "Feature", properties |-> {"name"},
     geometry |-> Some([type |-> "Polygon",
                        coordinates |-> <<<<<<<<0, 0>>, <<1, 0>>, <<1, 1>>,
                                              <<0, 1>>, <<0, 0>>>>>>>>,
                        geometries |-> <<>>]),
     id |-> None]

\* C9: a successful convert returns a FeatureCollection with exactly one
\* Feature per entry of the selected object's geometries list, in order (a
\* single Feature when the object has no such list), each with that
\* geometry's properties (empty when absent) and its id only when the
\* geometry has one; feature_count is the number of features; the test
\* topology decodes to one Feature whose ring has 5 points.
C9_OneFeaturePerGeometry ==
    pc = "done" =>
        LET r == result[1]
            feats == r.geojson.features
            geoms == Contributed(ObjectNamed(r.metadata.source_object))
        IN /\ r.geojson.type = "FeatureCollection"
           /\ Len(feats) = Len(geoms)
           /\ r.feature_count = Len(feats)
           /\ \A k \in 1 .. Len(geoms) :
                 /\ feats[k].type = "Feature"
                 /\ feats[k].properties =
                       (IF Len(geoms[k].properties) = 0
                        THEN {} ELSE geoms[k].properties[1])
                 /\ Len(feats[k].id) = Len(geoms[k].id)
                 /\ feats[k].id = geoms[k].id
                 /\ SameShape(geoms[k], feats[k].geometry)
           /\ ( /\ GivenObjects
                     = <<Entry("test", GeometryCollection(<<TestPolygon>>))>>
                /\ topojson.transform = None )
                 => feats = <<TestPolygonFeature>>

C9_Witness ==
    /\ pc = "done"
    /\ result[1].feature_count = 2
    /\ result[1].geojson.features[1].id = Some(7)
    /\ result[1].geojson.features[1].properties = {"name"}
    /\ result[1].geojson.features[2].id = None
    /\ result[1].geojson.features[2].properties = {}
    /\ Len(result[1].geojson.features[2].geometry) = 1
    /\ result[1].geojson.features[2].geometry[1].type = "MultiPoint"

\* two entries of the geometries list that are the same TopoJSON geometry
\* (the same arc references) decode to the same GeoJSON geometry
SharedArcsDecodeAlike ==
    pc \in {"loop", "done"} =>
        \A i \in 1 .. Len(features) : \A j \in 1 .. Len(features) :
            geometries[i] = geometries[j]
                => features[i].geometry = features[j].geometry

\* C10: a convert call never modifies the topology it is given: no step,
\* successful or failing, changes the arcs list, an arc's delta pairs, the
\* transform or the objects mapping, negative indices and shared arcs
\* included, so a shared arc decodes to the same points every time.
C10_TopologyUnchanged ==
    [](SharedArcsDecodeAlike) /\ [][topojson' = topojson]_vars

C10_Witness ==
    /\ pc = "done"
    /\ Len(features) = 2
    /\ geometries[1] = WithProperties(LineString(<<-1>>), {})
    /\ geometries[2] = geometries[1]
    /\ features[1].geometry = features[2].geometry
    /\ Len(features[1].geometry[1].coordinates[1][1]) = 5

----------------------------------------------------------------------------
(* GeometryValidator (src/src/mapbox_tileset_uploader/validators.py)       *)
(*                                                                         *)
(* Representation of the GeoJSON values:                                   *)
(*  - a coordinate is a sequence of numbers of any length (a well-formed   *)
(*    one has at least 2); numbers are integers;                           *)
(*  - "coordinates" is stored at the MultiPolygon depth, as above;         *)
(*  - an entry of "features" is a record whose field json tells a JSON     *)
(*    object ("object") from any other JSON value ("number");              *)
(*  - a message is its template and the values interpolated into it;       *)
(*  - details is a record of optional values, one per key the code uses;   *)
(*  - a function that can raise returns [raised, warnings].                *)
(***************************************************************************)

LON_MIN == -180

LON_MAX == 180

LAT_MIN == -90

LAT_MAX == 90

\* the default of max_warnings
DefaultMaxWarnings == 100

Message(text, args) == [text |-> text, args |-> args]

NoDetails ==
    [coordinate |-> None, first |-> None, last |-> None,
     duplicate_indices |-> None, shapely_reason |-> None]

ValidationWarning(feature_index, feature_id, warning_type, message, severity, details) ==
    [feature_index |-> feature_index, feature_id |-> feature_id,
     warning_type |-> warning_type, message |-> message,
     severity |-> severity, details |-> details]

ValidationResult(valid, warns, feature_count, valid_feature_count) ==
    [valid |-> valid, warnings |-> warns, feature_count |-> feature_count,
     valid_feature_count |-> valid_feature_count]

\* lines 127-135: self._has_shapely
HasShapely(check_validity, installed) == check_validity /\ installed

\* __init__ (lines 100-135): the validator, with what shapely answers when
\* it is asked (oracle)
GeometryValidator(opts, oracle) ==
    [check_coordinates |-> opts.check_coordinates,
     check_winding |-> opts.check_winding,
     check_duplicates |-> opts.check_duplicates,
     check_closure |-> opts.check_closure,
     check_validity |-> opts.check_validity,
     max_warnings |-> opts.max_warnings,
     has_shapely |-> HasShapely(opts.check_validity, oracle.installed),
     shapely |-> oracle]

AnyWarningOrError(warns) == \E k \in 1 .. Len(warns) : warns[k].severity # "info"

\* any(w.severity == "error" for w in warns)
AnyError(warns) == \E k \in 1 .. Len(warns) : warns[k].severity = "error"

\* the message templates of lines 362 and 375
LongitudeOutOfRange == "Longitude {lon} is out of range [{LON_MIN}, {LON_MAX}]"

LatitudeOutOfRange == "Latitude {lat} is out of range [{LAT_MIN}, {LAT_MAX}]"

ValidateCoordinateStrictBounds(self, coord, feature_index, feature_id) ==
    IF ~self.check_coordinates
    THEN <<>>
    ELSE IF Len(coord) = 0 \/ Len(coord) < 2
    THEN <<ValidationWarning(feature_index, feature_id, "invalid_coordinate",
                             Message("Invalid coordinate: {coord}", coord),
                             "error", NoDetails)>>
    ELSE LET lon == coord[1]
             lat == coord[2]
             d == [NoDetails EXCEPT !.coordinate = Some(coord)]
         IN (IF ~(LON_MIN < lon /\ lon < LON_MAX)
             THEN <<ValidationWarning(feature_index, feature_id, "out_of_bounds",
                        Message(LongitudeOutOfRange, <<lon, LON_MIN, LON_MAX>>),
                        "warning", d)>>
             ELSE <<>>)
            \o
            (IF ~(LAT_MIN < lat /\ lat < LAT_MAX)
             THEN <<ValidationWarning(feature_index, feature_id, "out_of_bounds",
                        Message(LatitudeOutOfRange, <<lat, LAT_MIN, LAT_MAX>>),
                        "warning", d)>>
             ELSE <<>>)

\* _validate_coordinate (lines 335-387)
ValidateCoordinate(self, coord, feature_index, feature_id) ==
    IF ~self.check_coordinates
    THEN <<>>
    ELSE IF Len(coord) = 0 \/ Len(coord) < 2
    THEN <<ValidationWarning(feature_index, feature_id, "invalid_coordinate",
                             Message("Invalid coordinate: {coord}", coord),
                             "error", NoDetails)>>
    ELSE LET lon == coord[1]
             lat == coord[2]
             d == [NoDetails EXCEPT !.coordinate = Some(coord)]
         IN (IF ~(LON_MIN <= lon /\ lon <= LON_MAX)
             THEN <<ValidationWarning(feature_index, feature_id, "out_of_bounds",
                        Message(LongitudeOutOfRange, <<lon, LON_MIN, LON_MAX>>),
                        "warning", d)>>
             ELSE <<>>)
            \o
            (IF ~(LAT_MIN <= lat /\ lat <= LAT_MAX)
             THEN <<ValidationWarning(feature_index, feature_id, "out_of_bounds",
                        Message(LatitudeOutOfRange, <<lat, LAT_MIN, LAT_MAX>>),
                        "warning", d)>>
             ELSE <<>>)

\* for coord in coords: warnings.extend(self._validate_coordinate(coord, ...))
RECURSIVE ValidateCoordinates(_, _, _, _)
ValidateCoordinates(self, coords, feature_index, feature_id) ==
    IF Len(coords) = 0
    THEN <<>>
    ELSE ValidateCoordinate(self, Head(coords), feature_index, feature_id)
            \o ValidateCoordinates(self, Tail(coords), feature_index, feature_id)

\* the loop of _find_consecutive_duplicates from Python index i on
RECURSIVE FindDuplicatesFrom(_, _)
FindDuplicatesFrom(coords, i) ==
    IF i >= Len(coords)
    THEN <<>>
    ELSE (IF coords[i + 1] = coords[i] THEN <<i>> ELSE <<>>)
            \o FindDuplicatesFrom(coords, i + 1)

\* _find_consecutive_duplicates (lines 535-544): Python indices i >= 1 with
\* coords[i] == coords[i - 1]
FindConsecutiveDuplicates(coords) == FindDuplicatesFrom(coords, 1)

\* duplicates.remove(v): the list without the first occurrence of v
RECURSIVE Remove(_, _)
Remove(list, v) ==
    IF Len(list) = 0
    THEN <<>>
    ELSE IF Head(list) = v
    THEN Tail(list)
    ELSE <<Head(list)>> \o Remove(Tail(list), v)

Contains(list, v) == \E k \in 1 .. Len(list) : list[k] = v

\* the loop of _is_counterclockwise from Python index i on
RECURSIVE ShoelaceFrom(_, _)
ShoelaceFrom(ring, i) ==
    IF i >= Len(ring) - 1
    THEN 0
    ELSE LET x1 == ring[i + 1][1]
             y1 == ring[i + 1][2]
             x2 == ring[i + 2][1]
             y2 == ring[i + 2][2]
         IN (x2 - x1) * (y2 + y1) + ShoelaceFrom(ring, i + 1)

IsCounterclockwiseNonPositive(ring) ==
    IF Len(ring) >= 2 /\ \E k \in 1 .. Len(ring) : Len(ring[k]) < 2
    THEN [raised |-> TRUE, value |-> FALSE]
    ELSE [raised |-> FALSE, value |-> ShoelaceFrom(ring, 0) <= 0]

\* _is_counterclockwise (lines 546-554); ring[i][1] raises IndexError on a
\* coordinate with fewer than 2 components (every coordinate of a ring of
\* 2 or more is read)
IsCounterclockwise(ring) ==
    IF Len(ring) >= 2 /\ \E k \in 1 .. Len(ring) : Len(ring[k]) < 2
    THEN [raised |-> TRUE, value |-> FALSE]
    ELSE [raised |-> FALSE, value |-> ShoelaceFrom(ring, 0) < 0]

LineDuplicateFindingsUntruncated(self, duplicates, feature_index, feature_id) ==
    IF self.check_duplicates /\ Len(duplicates) > 0
    THEN <<ValidationWarning(feature_index, feature_id, "duplicate_vertices",
               Message("LineString has {n} duplicate consecutive vertices",
                       <<Len(duplicates)>>),
               "info",
               [NoDetails EXCEPT !.duplicate_indices = Some(duplicates)])>>
    ELSE <<>>

\* lines 414-427: the duplicates check of a line, given what the scan found
LineDuplicateFindings(self, duplicates, feature_index, feature_id) ==
    IF self.check_duplicates /\ Len(duplicates) > 0
    THEN <<ValidationWarning(feature_index, feature_id, "duplicate_vertices",
               Message("LineString has {n} duplicate consecutive vertices",
                       <<Len(duplicates)>>),
               "info",
               [NoDetails EXCEPT !.duplicate_indices =
                   Some(SubSeq(duplicates, 1,
                               IF Len(duplicates) < 5
                               THEN Len(duplicates) ELSE 5))])>>
    ELSE <<>>

\* _validate_line_string (lines 389-429)
ValidateLineString(self, coords, feature_index, feature_id) ==
    IF Len(coords) < 2
    THEN <<ValidationWarning(feature_index, feature_id,
               "insufficient_coordinates",
               Message("LineString has {n} points, needs at least 2",
                       <<Len(coords)>>),
               "error", NoDetails)>>
    ELSE ValidateCoordinates(self, coords, feature_index, feature_id)
            \o LineDuplicateFindings(self, FindConsecutiveDuplicates(coords),
                                     feature_index, feature_id)

\* lines 456 and 510: the ring has too few points for a polygon ring
RingTooShortBelowThree(ring) == Len(ring) < 3

RingTooShort(ring) == Len(ring) < 4

\* line 471: ring[0] != ring[-1]
UnclosedComparesLastButOne(ring) == ring[1] # ring[Len(ring) - 1]

Unclosed(ring) == ring[1] # ring[Len(ring)]

\* a statement that drops the closing point from the ring itself before the
\* index is removed from the list
RemoveAfterPoppingRing(ring, duplicates, v) ==
    [ring |-> SubSeq(ring, 1, Len(ring) - 1), duplicates |-> Remove(duplicates, v)]

\* line 495: duplicates.remove(v) shortens the local list in place; the two
\* lists in reach of the statement, as it leaves them
RemoveInPlace(ring, duplicates, v) ==
    [ring |-> ring, duplicates |-> Remove(duplicates, v)]

\* line 494: ring[0] == ring[-1] and len(ring) - 1 in duplicates
ClosingIsDuplicate(ring, duplicates) ==
    ring[1] = ring[Len(ring)] /\ Contains(duplicates, Len(ring) - 1)

\* lines 494-495: the closing point is excluded from the duplicates
ExcludeClosing(ring, duplicates) ==
    IF ClosingIsDuplicate(ring, duplicates)
    THEN RemoveInPlace(ring, duplicates, Len(ring) - 1).duplicates
    ELSE duplicates

\* lines 492-495
RingDuplicates(ring) == ExcludeClosing(ring, FindConsecutiveDuplicates(ring))

\* the ring of the input as lines 445-533 leave it: the only statement that
\* changes a list in place is the one of line 495
RingLeft(self, ring) ==
    IF /\ ~RingTooShort(ring)
       /\ self.check_duplicates
       /\ ClosingIsDuplicate(ring, FindConsecutiveDuplicates(ring))
    THEN RemoveInPlace(ring, FindConsecutiveDuplicates(ring), Len(ring) - 1).ring
    ELSE ring

\* the rings of a polygon as _validate_polygon leaves them
RingsLeft(self, rings) == [k \in 1 .. Len(rings) |-> RingLeft(self, rings[k])]

\* found so far, and then more; an exception ends the call
Outcome(raised, warns) == [raised |-> raised, warnings |-> warns]

Extended(first, second) ==
    IF first.raised
    THEN first
    ELSE Outcome(second.raised, first.warnings \o second.warnings)

\* lines 470-484: the closure check of a ring
RingClosure(self, ring, ring_index, feature_index, feature_id) ==
    IF self.check_closure /\ Unclosed(ring)
    THEN <<ValidationWarning(feature_index, feature_id, "unclosed_ring",
               Message("Polygon {ring_type} ring is not closed", <<ring_index>>),
               "warning",
               [NoDetails EXCEPT !.first = Some(ring[1]),
                                 !.last = Some(ring[Len(ring)])])>>
    ELSE <<>>

\* lines 491-507: the duplicates check of a ring, given what the scan left
RingDuplicateFindings(self, duplicates, ring_index, feature_index, feature_id) ==
    IF self.check_duplicates /\ Len(duplicates) > 0
    THEN <<ValidationWarning(feature_index, feature_id, "duplicate_vertices",
               Message("Polygon {ring_type} ring has {dupe_count} duplicate vertices",
                       <<ring_index, Len(duplicates)>>),
               "info", NoDetails)>>
    ELSE <<>>

\* lines 510-531: the winding check of a ring, given what
\* _is_counterclockwise answered
RingWinding(is_ccw, ring_index, feature_index, feature_id) ==
    IF is_ccw.raised
    THEN Outcome(TRUE, <<>>)
    ELSE IF ring_index = 0 /\ is_ccw.value
    THEN Outcome(FALSE, <<ValidationWarning(feature_index, feature_id,
               "wrong_winding",
               Message("Exterior ring should be clockwise (RFC 7946)", <<>>),
               "info", NoDetails)>>)
    ELSE IF ring_index > 0 /\ ~is_ccw.value
    THEN Outcome(FALSE, <<ValidationWarning(feature_index, feature_id,
               "wrong_winding",
               Message("Hole {ring_index} should be counter-clockwise (RFC 7946)",
                       <<ring_index>>),
               "info", NoDetails)>>)
    ELSE Outcome(FALSE, <<>>)

\* the body of the loop of _validate_polygon (lines 453-531) for one ring
ValidateRing(self, ring, ring_index, feature_index, feature_id) ==
    IF RingTooShort(ring)
    THEN Outcome(FALSE, <<ValidationWarning(feature_index, feature_id,
               "insufficient_coordinates",
               Message("Polygon {ring_type} ring has {n} points, needs 4",
                       <<ring_index, Len(ring)>>),
               "error", NoDetails)>>)
    ELSE Extended(
            Outcome(FALSE,
                RingClosure(self, ring, ring_index, feature_index, feature_id)
                    \o ValidateCoordinates(self, ring, feature_index, feature_id)
                    \o RingDuplicateFindings(self, RingDuplicates(ring), ring_index,
                                             feature_index, feature_id)),
            IF self.check_winding /\ Len(ring) >= 4
            THEN RingWinding(IsCounterclockwise(ring), ring_index,
                             feature_index, feature_id)
            ELSE Outcome(FALSE, <<>>))

\* for ring_index, ring in enumerate(rings), from ring_index on
RECURSIVE ValidateRingsFrom(_, _, _, _, _)
ValidateRingsFrom(self, rings, ring_index, feature_index, feature_id) ==
    IF ring_index >= Len(rings)
    THEN Outcome(FALSE, <<>>)
    ELSE Extended(ValidateRing(self, rings[ring_index + 1], ring_index,
                               feature_index, feature_id),
                  ValidateRingsFrom(self, rings, ring_index + 1,
                                    feature_index, feature_id))

\* _validate_polygon (lines 431-533)
ValidatePolygon(self, rings, feature_index, feature_id) ==
    IF Len(rings) = 0
    THEN Outcome(FALSE, <<ValidationWarning(feature_index, feature_id,
               "empty_polygon", Message("Polygon has no rings", <<>>),
               "error", NoDetails)>>)
    ELSE ValidateRingsFrom(self, rings, 0, feature_index, feature_id)

\* _check_shapely_validity (lines 556-606); what shapely answers is
\* self.shapely
CheckShapelyValidity(self, geometry, feature_index, feature_id) ==
    IF self.shapely.raises
    THEN <<ValidationWarning(feature_index, feature_id, "validation_error",
               Message("Could not validate geometry: {e}", <<>>),
               "info", NoDetails)>>
    ELSE (IF ~self.shapely.is_valid
          THEN <<ValidationWarning(feature_index, feature_id,
                     "invalid_geometry",
                     Message("Invalid geometry: {reason}", <<>>), "warning",
                     [NoDetails EXCEPT !.shapely_reason = Some("reason")])>>
          ELSE <<>>)
         \o
         (IF self.shapely.is_empty
          THEN <<ValidationWarning(feature_index, feature_id,
                     "empty_geometry", Message("Geometry is empty", <<>>),
                     "warning", NoDetails)>>
          ELSE <<>>)

\* geometry.get("coordinates", []) at the depth of each geometry type
OfMultiPolygon(geometry) == geometry.coordinates

OfPolygon(geometry) ==
    IF Len(geometry.coordinates) = 0 THEN <<>> ELSE geometry.coordinates[1]

OfLineString(geometry) ==
    IF Len(OfPolygon(geometry)) = 0 THEN <<>> ELSE OfPolygon(geometry)[1]

OfPoint(geometry) ==
    IF Len(OfLineString(geometry)) = 0 THEN <<>> ELSE OfLineString(geometry)[1]

\* for line in ...: warnings.extend(self._validate_line_string(line, ...))
RECURSIVE ValidateLineStrings(_, _, _, _)
ValidateLineStrings(self, lines, feature_index, feature_id) ==
    IF Len(lines) = 0
    THEN <<>>
    ELSE ValidateLineString(self, Head(lines), feature_index, feature_id)
            \o ValidateLineStrings(self, Tail(lines), feature_index, feature_id)

\* for polygon in ...: warnings.extend(self._validate_polygon(polygon, ...))
RECURSIVE ValidatePolygons(_, _, _, _)
ValidatePolygons(self, polygons, feature_index, feature_id) ==
    IF Len(polygons) = 0
    THEN Outcome(FALSE, <<>>)
    ELSE Extended(ValidatePolygon(self, Head(polygons), feature_index, feature_id),
                  ValidatePolygons(self, Tail(polygons), feature_index, feature_id))

\* lines 328-331: the findings of shapely follow those of the geometry
WithValidity(self, own, geometry, feature_index, feature_id) ==
    IF self.check_validity /\ self.has_shapely
    THEN Extended(own, Outcome(FALSE,
                CheckShapelyValidity(self, geometry, feature_index, feature_id)))
    ELSE own

\* _validate_geometry (lines 268-333) and its loop over the children of a
\* GeometryCollection
RECURSIVE ValidateGeometry(_, _, _, _)
RECURSIVE ValidateGeometries(_, _, _, _)
ValidateGeometry(self, geometry, feature_index, feature_id) ==
    WithValidity(self, 
        IF geometry.type = "Point"
        THEN Outcome(FALSE, ValidateCoordinate(self, OfPoint(geometry),
                                               feature_index, feature_id))
        ELSE IF geometry.type = "MultiPoint"
        THEN Outcome(FALSE, ValidateCoordinates(self, OfLineString(geometry),
                                                feature_index, feature_id))
        ELSE IF geometry.type = "LineString"
        THEN Outcome(FALSE, ValidateLineString(self, OfLineString(geometry),
                                               feature_index, feature_id))
        ELSE IF geometry.type = "MultiLineString"
        THEN Outcome(FALSE, ValidateLineStrings(self, OfPolygon(geometry),
                                                feature_index, feature_id))
        ELSE IF geometry.type = "Polygon"
        THEN ValidatePolygon(self, OfPolygon(geometry), feature_index, feature_id)
        ELSE IF geometry.type = "MultiPolygon"
        THEN ValidatePolygons(self, OfMultiPolygon(geometry),
                              feature_index, feature_id)
        ELSE IF geometry.type = "GeometryCollection"
        THEN ValidateGeometries(self, geometry.geometries, feature_index, feature_id)
        ELSE IF geometry.type = PyNone
        THEN Outcome(FALSE, <<ValidationWarning(feature_index, feature_id,
                   "null_geometry", Message("Geometry type is null", <<>>),
                   "warning", NoDetails)>>)
        ELSE Outcome(FALSE, <<ValidationWarning(feature_index, feature_id,
                   "unknown_geometry_type",
                   Message("Unknown geometry type: {geom_type}", <<>>),
                   "error", NoDetails)>>),
        geometry, feature_index, feature_id)

ValidateGeometries(self, geoms, feature_index, feature_id) ==
    IF Len(geoms) = 0
    THEN Outcome(FALSE, <<>>)
    ELSE Extended(ValidateGeometry(self, Head(geoms), feature_index, feature_id),
                  ValidateGeometries(self, Tail(geoms), feature_index, feature_id))

\* the geometry of the input as _validate_geometry leaves it: only the
\* polygon rule runs a statement that changes a list in place
RECURSIVE GeometryLeft(_, _)
GeometryLeft(self, geometry) ==
    IF geometry.type \in {"Polygon", "MultiPolygon"}
    THEN [geometry EXCEPT !.coordinates =
             [k \in 1 .. Len(@) |-> RingsLeft(self, @[k])]]
    ELSE IF geometry.type = "GeometryCollection"
    THEN [geometry EXCEPT !.geometries =
             [k \in 1 .. Len(@) |-> GeometryLeft(self, @[k])]]
    ELSE geometry

\* lines 254-264: the properties check of a feature
FeatureProperties(feature, index) ==
    IF feature.properties = None
    THEN <<ValidationWarning(Some(index), feature.id, "null_properties",
               Message("Feature has null properties (should be empty object {})",
                       <<>>),
               "info", NoDetails)>>
    ELSE <<>>

ValidateFeatureWithoutReturn(self, feature, index) ==
    IF feature.json # "object"
    THEN Outcome(TRUE, <<>>)
    ELSE Extended(
            Outcome(FALSE,
                IF feature.type # "Feature"
                THEN <<ValidationWarning(Some(index), feature.id,
                           "invalid_feature",
                           Message("Invalid feature type: {type}", <<>>),
                           "error", NoDetails)>>
                ELSE <<>>),
            Extended(
                IF feature.geometry = None
                THEN Outcome(FALSE, <<ValidationWarning(Some(index), feature.id,
                           "null_geometry",
                           Message("Feature has null geometry", <<>>),
                           "warning", NoDetails)>>)
                ELSE ValidateGeometry(self, feature.geometry[1], Some(index),
                                      feature.id),
                Outcome(FALSE, FeatureProperties(feature, index))))

\* _validate_feature (lines 216-266); feature.get raises AttributeError on
\* an entry that is not a JSON object
ValidateFeature(self, feature, index) ==
    IF feature.json # "object"
    THEN Outcome(TRUE, <<>>)
    ELSE IF feature.type # "Feature"
    THEN Outcome(FALSE, <<ValidationWarning(Some(index), feature.id,
               "invalid_feature",
               Message("Invalid feature type: {type}", <<>>),
               "error", NoDetails)>>)
    ELSE Extended(
            IF feature.geometry = None
            THEN Outcome(FALSE, <<ValidationWarning(Some(index), feature.id,
                       "null_geometry",
                       Message("Feature has null geometry", <<>>),
                       "warning", NoDetails)>>)
            ELSE ValidateGeometry(self, feature.geometry[1], Some(index), feature.id),
            Outcome(FALSE, FeatureProperties(feature, index)))

\* the feature of the input as _validate_feature leaves it
FeatureLeft(self, feature) ==
    IF feature.json = "object" /\ feature.type = "Feature" /\ feature.geometry # None
    THEN [feature EXCEPT !.geometry = Some(GeometryLeft(self, @[1]))]
    ELSE feature

----------------------------------------------------------------------------
(* validate as a process: one step for the entry, one per iteration of the *)
(* loop over the features, one for the return                              *)

\* line 156: len(warnings) >= self.max_warnings
CutoffReachedStrictly(self, count) == count > self.max_warnings

CutoffReached(self, count) == count >= self.max_warnings

\* lines 157-166
MaxWarningsReached(self) ==
    ValidationWarning(None, None, "max_warnings_reached",
        Message("Maximum warnings ({max_warnings}) reached, stopping validation",
                <<self.max_warnings>>),
        "info", NoDetails)

InvalidTypeAsWarning ==
    ValidationWarning(None, None, "invalid_type",
        Message("Invalid GeoJSON type: {geojson_type}", <<>>),
        "warning", NoDetails)

\* lines 199-207
InvalidType ==
    ValidationWarning(None, None, "invalid_type",
        Message("Invalid GeoJSON type: {geojson_type}", <<>>),
        "error", NoDetails)

ReturnedResultValidByCount(warns, feature_count, valid_feature_count) ==
    ValidationResult(valid_feature_count = feature_count, warns,
                     feature_count, valid_feature_count)

\* lines 209-214
ReturnedResult(warns, feature_count, valid_feature_count) ==
    ValidationResult(
        Len(SelectSeq(warns, LAMBDA w : w.severity = "error")) = 0,
        warns, feature_count, valid_feature_count)

\* lines 183-191
\* the validator validate is called on
Self == GeometryValidator(options, shapely)

BareGeometryTypes ==
    {"Point", "MultiPoint", "LineString", "MultiLineString", "Polygon",
     "MultiPolygon", "GeometryCollection"}

\* lines 147-154: the locals and the entry of the FeatureCollection branch
ValidateBegin ==
    /\ vpc = "start"
    /\ geojson.type = "FeatureCollection"
    /\ vpc' = "loop"
    /\ val_warnings' = <<>>
    /\ valid_count' = 0
    /\ total_count' = 0
    /\ feature_i' = 0
    /\ UNCHANGED <<geojson, options, shapely, validation>>
    /\ UNCHANGED topojson
    /\ UNCHANGED convertVars
    /\ UNCHANGED arcVars
    /\ UNCHANGED legacyVars
    /\ UNCHANGED uploadVars

\* the locals of validate after a step: the warnings and the two counts,
\* whether the loop was left by break, whether an exception ended the call
Locals(raised, stopped, warns, total, valid) ==
    [raised |-> raised, stopped |-> stopped, warnings |-> warns,
     total_count |-> total, valid_count |-> valid]

\* lines 169-174 (and 177-181, 192-196): the feature is counted, its
\* warnings are appended, and it is counted as valid without an error
Counted(found, warns, total, valid) ==
    IF found.raised
    THEN Locals(TRUE, FALSE, warns, total + 1, valid)
    ELSE Locals(FALSE, FALSE, warns \o found.warnings, total + 1,
                IF ~AnyError(found.warnings) THEN valid + 1 ELSE valid)

\* lines 176-207: a Feature, a bare geometry or anything else
SingleOutcome(self, input) ==
    IF input.type = "Feature"
    THEN Counted(ValidateFeature(self, input, 0), <<>>, 0, 0)
    ELSE IF input.type \in BareGeometryTypes
    THEN Counted(ValidateGeometry(self, input, Some(0), None), <<>>, 0, 0)
    ELSE Locals(FALSE, FALSE, <<InvalidType>>, 0, 0)

\* a loop body that tests the limit after the feature instead of before it
IterOutcomeCutoffAfterFeature(self, warns, total, valid, feature, i) ==
    LET locals == Counted(ValidateFeature(self, feature, i), warns, total, valid)
    IN IF ~locals.raised /\ CutoffReached(self, Len(locals.warnings))
       THEN Locals(FALSE, TRUE,
                   Append(locals.warnings, MaxWarningsReached(self)),
                   locals.total_count, locals.valid_count)
       ELSE locals

\* lines 156-174: the body of the loop for the feature at Python index i
IterOutcome(self, warns, total, valid, feature, i) ==
    IF CutoffReached(self, Len(warns))
    THEN Locals(FALSE, TRUE, Append(warns, MaxWarningsReached(self)),
                total, valid)
    ELSE Counted(ValidateFeature(self, feature, i), warns, total, valid)

\* the input as lines 176-207 leave it
SingleLeft(self, input) ==
    IF input.type = "Feature"
    THEN FeatureLeft(self, input)
    ELSE IF input.type \in BareGeometryTypes
    THEN GeometryLeft(self, input)
    ELSE input

\* the input as one iteration of the loop, lines 156-174, leaves it
IterLeft(self, input, warns, i) ==
    IF CutoffReached(self, Len(warns))
    THEN input
    ELSE [input EXCEPT !.features[i + 1] = FeatureLeft(self, @)]

\* lines 147-151 and 176-207: a Feature, a bare geometry or anything else
ValidateSingle ==
    /\ vpc = "start"
    /\ geojson.type # "FeatureCollection"
    /\ \E next \in {SingleOutcome(Self, geojson)} :
          /\ vpc' = IF next.raised THEN "raised" ELSE "return"
          /\ val_warnings' = next.warnings
          /\ total_count' = next.total_count
          /\ valid_count' = next.valid_count
    /\ feature_i' = 0
    /\ geojson' = SingleLeft(Self, geojson)
    /\ UNCHANGED <<options, shapely, validation>>
    /\ UNCHANGED topojson
    /\ UNCHANGED convertVars
    /\ UNCHANGED arcVars
    /\ UNCHANGED legacyVars
    /\ UNCHANGED uploadVars

\* lines 155-174: one iteration of the loop over the features
ValidateIter ==
    /\ vpc = "loop"
    /\ feature_i < Len(geojson.features)
    /\ \E next \in {IterOutcome(Self, val_warnings, total_count, valid_count,
                                geojson.features[feature_i + 1], feature_i)} :
          /\ vpc' = IF next.raised THEN "raised"
                    ELSE IF next.stopped THEN "return" ELSE "loop"
          /\ val_warnings' = next.warnings
          /\ total_count' = next.total_count
          /\ valid_count' = next.valid_count
          /\ feature_i' = IF next.raised \/ next.stopped
                          THEN feature_i ELSE feature_i + 1
    /\ geojson' = IterLeft(Self, geojson, val_warnings, feature_i)
    /\ UNCHANGED <<options, shapely, validation>>
    /\ UNCHANGED topojson
    /\ UNCHANGED convertVars
    /\ UNCHANGED arcVars
    /\ UNCHANGED legacyVars
    /\ UNCHANGED uploadVars

\* lines 209-214, reached from a break, from the end of the loop or from
\* one of the other branches
ValidateReturn ==
    /\ \/ vpc = "return"
       \/ vpc = "loop" /\ feature_i = Len(geojson.features)
    /\ validation' = Some(ReturnedResult(val_warnings, total_count, valid_count))
    /\ vpc' = "done"
    /\ UNCHANGED <<geojson, options, shapely, val_warnings, valid_count,
                   total_count, feature_i>>
    /\ UNCHANGED topojson
    /\ UNCHANGED convertVars
    /\ UNCHANGED arcVars
    /\ UNCHANGED legacyVars
    /\ UNCHANGED uploadVars

\* for i, feature in enumerate(features), from Python index i on
RECURSIVE LoopFrom(_, _, _, _)
LoopFrom(self, entries, i, locals) ==
    IF i >= Len(entries) \/ locals.raised \/ locals.stopped
    THEN locals
    ELSE LoopFrom(self, entries, i + 1,
                  IterOutcome(self, locals.warnings, locals.total_count,
                              locals.valid_count, entries[i + 1], i))

\* what the call leaves: the result, or nothing when an exception ended it
Finished(locals) ==
    IF locals.raised
    THEN None
    ELSE Some(ReturnedResult(locals.warnings, locals.total_count,
                             locals.valid_count))

\* validate (lines 137-214) as a function of the validator and the input
Validate(self, input) ==
    IF input.type = "FeatureCollection"
    THEN Finished(LoopFrom(self, input.features, 0,
                           Locals(FALSE, FALSE, <<>>, 0, 0)))
    ELSE Finished(SingleOutcome(self, input))

----------------------------------------------------------------------------
(* The inputs of validate and the configurations of the validator *)

MaxFeatures == 3

MaxWarningsExplored == 2

MaxRingLen == 5

JsonObject(type) ==
    [json |-> "object", type |-> type, features |-> <<>>, geometry |-> None,
     properties |-> None, id |-> None, coordinates |-> <<>>,
     geometries |-> <<>>]

\* a JSON value that is not an object, as an entry of "features"
NotAMapping == [JsonObject(PyNone) EXCEPT !.json = "number"]

GeoPoint(coord) == [JsonObject("Point") EXCEPT !.coordinates = <<<<<<coord>>>>>>]

GeoMultiPoint(coords) ==
    [JsonObject("MultiPoint") EXCEPT !.coordinates = <<<<coords>>>>]

GeoLineString(coords) ==
    [JsonObject("LineString") EXCEPT !.coordinates = <<<<coords>>>>]

GeoMultiLineString(lines) ==
    [JsonObject("MultiLineString") EXCEPT !.coordinates = <<lines>>]

GeoPolygon(rings) == [JsonObject("Polygon") EXCEPT !.coordinates = <<rings>>]

GeoMultiPolygon(polygons) ==
    [JsonObject("MultiPolygon") EXCEPT !.coordinates = polygons]

GeoCollection(geoms) ==
    [JsonObject("GeometryCollection") EXCEPT !.geometries = geoms]

GeoFeature(geometry, properties, id) ==
    [JsonObject("Feature") EXCEPT !.geometry = geometry,
                                  !.properties = properties, !.id = id]

FeatureCollection(entries) ==
    [JsonObject("FeatureCollection") EXCEPT !.features = entries]

\* a closed ring in clockwise order, as RFC 7946 wants exteriors here
CleanExterior == <<<<0, 0>>, <<0, 1>>, <<1, 0>>, <<0, 0>>>>

\* a ring of 3 points
ShortRing == <<<<0, 0>>, <<0, 1>>, <<0, 0>>>>

\* a ring of 4 points one of which has a single component
RingWithShortCoordinate == <<<<0, 0>>, <<0, 1>>, <<1>>, <<0, 0>>>>

CleanFeature == GeoFeature(Some(GeoPoint(<<0, 0>>)), Some({}), Some("a"))

OutOfBoundsFeature == GeoFeature(Some(GeoPoint(<<200, 100>>)), None, None)

\* the feature of tests/test_validators.py test_validate_max_warnings_limit
LimitTestFeature == GeoFeature(Some(GeoPoint(<<200, 0>>)), Some({}), None)

NullGeometryFeature == GeoFeature(None, Some({}), None)

ShortRingFeature ==
    GeoFeature(Some(GeoPolygon(<<CleanExterior, ShortRing>>)), Some({}), None)

ShortCoordinateFeature ==
    GeoFeature(Some(GeoPolygon(<<RingWithShortCoordinate>>)), Some({}), None)

\* an entry whose type is not "Feature", with an id, a geometry out of
\* bounds and null properties
MistypedFeature ==
    [GeoFeature(Some(GeoPoint(<<200, 100>>)), None, Some("b"))
        EXCEPT !.type = "Point"]

FeatureMenu ==
    {CleanFeature, OutOfBoundsFeature, LimitTestFeature, NullGeometryFeature,
     ShortRingFeature, ShortCoordinateFeature, MistypedFeature, NotAMapping}

Collections == {FeatureCollection(fs) : fs \in SeqsUpTo(FeatureMenu, MaxFeatures)}

RingVertices == {<<0, 0>>, <<1, 0>>, <<0, 1>>}

Rings == SeqsUpTo(RingVertices, MaxRingLen)

\* rings of 3 points that are unclosed, have a repeated vertex and a
\* longitude out of bounds; the first is counter-clockwise, the second is not
FaultyShortRing == <<<<200, 0>>, <<200, 0>>, <<0, 1>>>>

FaultyShortHole == <<<<0, 1>>, <<200, 0>>, <<200, 0>>>>

Polygons ==
    {GeoPolygon(<<r>>) : r \in Rings}
        \cup {GeoPolygon(<<CleanExterior, r>>) : r \in Rings}
        \cup {GeoPolygon(<<FaultyShortRing, CleanExterior>>),
              GeoPolygon(<<CleanExterior, FaultyShortHole>>),
              GeoPolygon(<<FaultyShortRing, FaultyShortHole>>)}

Longitudes == {-181, -180, 0, 180, 181, 200}

Latitudes == {-91, -90, 0, 90, 91}

CoordinateValues ==
    {<<lon, lat>> : lon \in Longitudes, lat \in Latitudes}
        \cup {<<>>, <<5>>, <<200, 0, 7>>, <<0, 100, 7>>}

Points ==
    {GeoPoint(c) : c \in CoordinateValues}
        \cup {GeoMultiPoint(<<c, <<200, 100>>, <<5>>>>) : c \in CoordinateValues}
        \cup {GeoLineString(<<<<0, 0>>, c>>) : c \in CoordinateValues}

\* the line of tests/test_validators.py test_validate_duplicate_vertices
DuplicatesLine == <<<<0, 0>>, <<0, 0>>, <<1, 1>>, <<1, 1>>, <<2, 2>>>>

\* a line with 6 consecutive duplicates
SevenSamePoints ==
    <<<<0, 0>>, <<0, 0>>, <<0, 0>>, <<0, 0>>, <<0, 0>>, <<0, 0>>, <<0, 0>>>>

\* lines over the vertices of the rings, and the line with 6 duplicates
\* alone and among others
Lines ==
    {GeoLineString(r) : r \in Rings}
        \cup {GeoLineString(SevenSamePoints),
              GeoMultiLineString(<<<<<<0, 0>>>>, SevenSamePoints,
                                   <<<<200, 0>>, <<5>>, <<5>>>>>>)}

Geometries ==
    {GeoLineString(DuplicatesLine), GeoLineString(<<<<0, 0>>>>),
     GeoMultiLineString(<<DuplicatesLine, <<<<0, 0>>, <<200, 0>>>>>>),
     GeoPolygon(<<>>), GeoPolygon(<<CleanExterior>>),
     GeoMultiPolygon(<<<<CleanExterior>>, <<ShortRing>>>>),
     GeoMultiPolygon(<<<<CleanExterior>>, <<RingWithShortCoordinate>>>>),
     GeoCollection(<<GeoPoint(<<200, 0>>), JsonObject(PyNone)>>),
     GeoCollection(<<GeoPoint(<<0, 0>>), JsonObject("Circle")>>),
     GeoCollection(<<GeoCollection(<<GeoPolygon(<<RingWithShortCoordinate>>)>>)>>)}

Singles ==
    Geometries
        \cup {GeoFeature(Some(g), Some({}), Some("a")) : g \in Geometries}
        \cup (FeatureMenu \ {NotAMapping})
        \cup {JsonObject("Topology"), JsonObject(PyNone)}

Options(coords, winding, duplicates, closure, validity, max) ==
    [check_coordinates |-> coords, check_winding |-> winding,
     check_duplicates |-> duplicates, check_closure |-> closure,
     check_validity |-> validity, max_warnings |-> max]

\* the defaults of __init__ (lines 100-108)
DefaultOptions == Options(TRUE, TRUE, TRUE, TRUE, TRUE, DefaultMaxWarnings)

\* the defaults, each check switched off alone, and all of them off
OptionMenu ==
    {DefaultOptions,
     [DefaultOptions EXCEPT !.check_coordinates = FALSE],
     [DefaultOptions EXCEPT !.check_winding = FALSE],
     [DefaultOptions EXCEPT !.check_duplicates = FALSE],
     [DefaultOptions EXCEPT !.check_closure = FALSE],
     [DefaultOptions EXCEPT !.check_validity = FALSE],
     Options(FALSE, FALSE, FALSE, FALSE, FALSE, DefaultMaxWarnings)}

LimitedOptions ==
    {[DefaultOptions EXCEPT !.max_warnings = m] :
        m \in (0 .. MaxWarningsExplored) \cup {DefaultMaxWarnings}}

Shapely(installed, raises, is_valid, is_empty) ==
    [installed |-> installed, raises |-> raises, is_valid |-> is_valid,
     is_empty |-> is_empty]

NotInstalled == Shapely(FALSE, FALSE, TRUE, FALSE)

\* shapely missing, or installed and finding the geometry valid, invalid,
\* empty, or failing on it
ShapelyMenu ==
    {NotInstalled, Shapely(TRUE, FALSE, TRUE, FALSE),
     Shapely(TRUE, FALSE, FALSE, FALSE), Shapely(TRUE, FALSE, TRUE, TRUE),
     Shapely(TRUE, TRUE, TRUE, FALSE)}

NoTopology ==
    [type |-> "Topology", objects |-> None, arcs |-> <<>>, transform |-> None]

ValidateInit ==
    /\ \/ /\ geojson \in Collections
          /\ options \in LimitedOptions
          /\ shapely = NotInstalled
       \/ /\ geojson \in Polygons \cup Points \cup Lines
          /\ options \in OptionMenu
          /\ shapely = NotInstalled
       \/ /\ geojson \in Singles
          /\ options \in {DefaultOptions,
                          [DefaultOptions EXCEPT !.check_validity = FALSE]}
          /\ shapely \in ShapelyMenu
    /\ vpc = "start"
    /\ val_warnings = <<>>
    /\ valid_count = 0
    /\ total_count = 0
    /\ feature_i = 0
    /\ validation = None
    /\ topojson = NoTopology
    /\ ConvertIdle
    /\ ArcsIdle
    /\ LegacyIdle
    /\ UploadIdle

ValidateNext == ValidateBegin \/ ValidateSingle \/ ValidateIter \/ ValidateReturn

ValidateSpec == ValidateInit /\ [][ValidateNext]_vars

----------------------------------------------------------------------------
(* Claims about GeometryValidator.validate (ValidateSpec) *)

HasReturned == Len(validation) = 1

ErrorsOf(warns) == {k \in 1 .. Len(warns) : warns[k].severity = "error"}

\* C11: whatever the input and the configuration, the result validate
\* returns has valid true exactly when none of its warnings has severity
\* error.
C11_ValidIffNoError ==
    HasReturned => (validation[1].valid <=> ErrorsOf(validation[1].warnings) = {})

\* an input that is neither a feature nor a geometry: no feature is counted,
\* none is invalid, and the result is invalid
C11_Witness ==
    /\ HasReturned
    /\ ~validation[1].valid
    /\ validation[1].feature_count = validation[1].valid_feature_count
    /\ ErrorsOf(validation[1].warnings) # {}

\* the loop over the features is about to look at the next feature
AtFeature == vpc = "loop" /\ feature_i < Len(geojson.features)

\* C12: in a FeatureCollection, before each feature the number of warnings
\* so far is compared with max_warnings. Once it has reached max_warnings,
\* one info warning max_warnings_reached is appended and the loop is left:
\* the counts stay as they are and the result is built from them. Otherwise
\* feature_count grows by one, the feature is validated and its warnings
\* are appended, and valid_feature_count grows by one exactly when none of
\* the feature's own warnings is an error.
C12_CutoffBeforeEachFeature ==
    [][/\ (AtFeature /\ Len(val_warnings) >= options.max_warnings)
            => /\ vpc' = "return"
               /\ Len(val_warnings') = Len(val_warnings) + 1
               /\ SubSeq(val_warnings', 1, Len(val_warnings)) = val_warnings
               /\ val_warnings'[Len(val_warnings')].warning_type
                      = "max_warnings_reached"
               /\ val_warnings'[Len(val_warnings')].severity = "info"
               /\ UNCHANGED <<total_count, valid_count, feature_i>>
       /\ (AtFeature /\ Len(val_warnings) < options.max_warnings)
            => /\ total_count' = total_count + 1
               /\ \/ vpc' = "raised"
                  \/ LET own == ValidateFeature(Self, geojson.features[feature_i + 1],
                                                feature_i).warnings
                     IN /\ vpc' = "loop"
                        /\ feature_i' = feature_i + 1
                        /\ val_warnings' = val_warnings \o own
                        /\ valid_count' = valid_count
                               + (IF ErrorsOf(own) = {} THEN 1 ELSE 0)
       /\ (vpc = "return")
            => /\ Len(validation') = 1
               /\ validation'[1].warnings = val_warnings
               /\ validation'[1].feature_count = total_count
               /\ validation'[1].valid_feature_count = valid_count
               /\ validation'[1].valid = (ErrorsOf(val_warnings) = {})
      ]_vars

\* the limit was reached after the first feature of several: the result
\* ends with the limit message and counts one feature
C12_Witness ==
    /\ HasReturned
    /\ geojson.type = "FeatureCollection"
    /\ validation[1].feature_count >= 1
    /\ validation[1].feature_count < Len(geojson.features)
    /\ Len(validation[1].warnings) >= 1
    /\ validation[1].warnings[Len(validation[1].warnings)].warning_type
           = "max_warnings_reached"

\* C13: for every FeatureCollection and every max_warnings, the result holds
\* at most max_warnings + 1 warnings: the collected findings and the one
\* limit message.
C13_WarningCountWithinLimit ==
    (HasReturned /\ geojson.type = "FeatureCollection")
        => Len(validation[1].warnings) <= options.max_warnings + 1

\* C14: validate never raises, whatever the input and the configuration:
\* every defect, an entry of "features" that is not an object and a polygon
\* ring with a coordinate of fewer than 2 components under the winding
\* check included, is reported as a warning of a returned result.
C14_ValidateNeverRaises == vpc # "raised"

\* the rings of a bare Polygon handed to validate
InputRings == OfPolygon(geojson)

PolygonReturned == HasReturned /\ geojson.type = "Polygon"

\* Python indices of the rings with fewer than 4 points
ShortRings(rings) == {k \in 0 .. Len(rings) - 1 : Len(rings[k + 1]) < 4}

\* positions in warns of the findings of one kind that name ring k
RingFindings(warns, kind, k) ==
    {j \in 1 .. Len(warns) :
        /\ warns[j].warning_type = kind
        /\ IF Len(warns[j].message.args) = 0
           THEN k = 0
           ELSE warns[j].message.args[1] = k}

\* what the rings of 4 or more points yield, in ring order
RECURSIVE LongRingFindings(_, _)
LongRingFindings(rings, k) ==
    IF k >= Len(rings)
    THEN <<>>
    ELSE (IF Len(rings[k + 1]) < 4
          THEN <<>>
          ELSE ValidateRing(Self, rings[k + 1], k, Some(0), None).warnings)
            \o LongRingFindings(rings, k + 1)

\* the kinds of finding of the checks made on a ring of 4 or more points
RingCheckKinds ==
    {"unclosed_ring", "invalid_coordinate", "out_of_bounds",
     "duplicate_vertices", "wrong_winding"}

HasShortRing(entry) ==
    /\ entry.json = "object"
    /\ entry.type = "Feature"
    /\ Len(entry.geometry) = 1
    /\ entry.geometry[1].type = "Polygon"
    /\ ShortRings(OfPolygon(entry.geometry[1])) # {}

\* C15: a polygon ring with fewer than 4 points yields exactly one error
\* insufficient_coordinates for that ring and no closure, coordinate,
\* duplicate or winding finding for it, while the other rings are checked
\* as usual; the result is invalid and the feature that holds the ring is
\* not counted as valid.
C15_ShortRing ==
    /\ PolygonReturned =>
         LET warns == validation[1].warnings
             short == ShortRings(InputRings)
         IN /\ \A k \in short :
                  /\ Cardinality(RingFindings(warns, "insufficient_coordinates", k)) = 1
                  /\ \A j \in RingFindings(warns, "insufficient_coordinates", k) :
                         warns[j].severity = "error"
                  /\ RingFindings(warns, "unclosed_ring", k) = {}
                  /\ RingFindings(warns, "duplicate_vertices", k) = {}
                  /\ RingFindings(warns, "wrong_winding", k) = {}
            /\ SelectSeq(warns, LAMBDA w : w.warning_type \in RingCheckKinds)
                   = LongRingFindings(InputRings, 0)
            /\ short # {} =>
                  /\ ~validation[1].valid
                  /\ validation[1].feature_count = 1
                  /\ validation[1].valid_feature_count = 0
    /\ (HasReturned /\ geojson.type = "FeatureCollection") =>
         LET processed == 1 .. validation[1].feature_count
             withShort == {i \in processed : HasShortRing(geojson.features[i])}
         IN /\ validation[1].valid_feature_count
                   <= Cardinality(processed \ withShort)
            /\ withShort # {} => ~validation[1].valid

\* a faulty ring of 3 points as the hole of a clean exterior: one error and
\* nothing else
C15_Witness ==
    /\ PolygonReturned
    /\ options = DefaultOptions
    /\ Len(InputRings) = 2
    /\ InputRings[2] = FaultyShortHole
    /\ Len(validation[1].warnings) = 1
    /\ validation[1].warnings[1].warning_type = "insufficient_coordinates"
    /\ ~validation[1].valid

\* Python indices k of the rings of 4 or more points
LongRings(rings) == {k \in 0 .. Len(rings) - 1 : Len(rings[k + 1]) >= 4}

\* some vertex of the ring equals the vertex before it
HasConsecutiveDuplicate(ring) ==
    \E i \in 2 .. Len(ring) : ring[i] = ring[i - 1]

\* C16: with check_duplicates on, a polygon ring of 4 or more points gets
\* exactly one info finding duplicate_vertices when some vertex equals its
\* predecessor, the last position of a closed ring included, and none
\* otherwise; that a closed ring ends where it starts is not a duplicate.
C16_DuplicateVertices ==
    (PolygonReturned /\ options.check_duplicates) =>
        \A k \in LongRings(InputRings) :
            LET found == RingFindings(validation[1].warnings,
                                      "duplicate_vertices", k)
            IN /\ Cardinality(found)
                      = (IF HasConsecutiveDuplicate(InputRings[k + 1])
                         THEN 1 ELSE 0)
               /\ \A j \in found : validation[1].warnings[j].severity = "info"

\* the coordinates of a bare Point or MultiPoint handed to validate
InputCoordinates ==
    IF geojson.type = "Point"
    THEN <<OfPoint(geojson)>>
    ELSE OfLineString(geojson)

\* kind, severity and subject of the findings the claim gives a coordinate
ExpectedOfCoordinate(coord) ==
    IF Len(coord) < 2
    THEN <<[kind |-> "invalid_coordinate", severity |-> "error",
            about |-> "coordinate"]>>
    ELSE (IF coord[1] < -180 \/ coord[1] > 180
          THEN <<[kind |-> "out_of_bounds", severity |-> "warning",
                  about |-> "longitude"]>>
          ELSE <<>>)
         \o
         (IF coord[2] < -90 \/ coord[2] > 90
          THEN <<[kind |-> "out_of_bounds", severity |-> "warning",
                  about |-> "latitude"]>>
          ELSE <<>>)

RECURSIVE ExpectedOfCoordinates(_)
ExpectedOfCoordinates(coords) ==
    IF Len(coords) = 0
    THEN <<>>
    ELSE ExpectedOfCoordinate(Head(coords)) \o ExpectedOfCoordinates(Tail(coords))

\* kind, severity and subject of a coordinate finding
AboutOf(w) ==
    [kind |-> w.warning_type, severity |-> w.severity,
     about |-> IF w.message.text = LongitudeOutOfRange THEN "longitude"
               ELSE IF w.message.text = LatitudeOutOfRange THEN "latitude"
               ELSE "coordinate"]

RECURSIVE CoordinateFindings(_)
CoordinateFindings(warns) ==
    IF Len(warns) = 0
    THEN <<>>
    ELSE (IF Head(warns).warning_type \in {"invalid_coordinate", "out_of_bounds"}
          THEN <<AboutOf(Head(warns))>>
          ELSE <<>>)
            \o CoordinateFindings(Tail(warns))

\* C17: with check_coordinates on, a coordinate of fewer than 2 components
\* yields exactly one error invalid_coordinate and no bound finding; any
\* other coordinate yields one warning out_of_bounds when its longitude is
\* outside [-180, 180] and, independently, one when its latitude is outside
\* [-90, 90]; the bounds themselves are inside.
C17_CoordinateFindings ==
    (HasReturned /\ geojson.type \in {"Point", "MultiPoint"}
        /\ options.check_coordinates)
        => CoordinateFindings(validation[1].warnings)
               = ExpectedOfCoordinates(InputCoordinates)

\* the Point at [200, 0]: one warning, about the longitude
C17_Witness ==
    /\ HasReturned
    /\ geojson = GeoPoint(<<200, 0>>)
    /\ options = DefaultOptions
    /\ shapely = NotInstalled
    /\ Len(validation[1].warnings) = 1
    /\ validation[1].warnings[1].warning_type = "out_of_bounds"
    /\ validation[1].warnings[1].message.text = LongitudeOutOfRange
    /\ validation[1].valid

\* the kinds of finding that are warnings or notes
NonErrorKinds ==
    {"out_of_bounds", "null_geometry", "null_properties", "unclosed_ring",
     "duplicate_vertices", "wrong_winding", "max_warnings_reached"}

\* C18: findings of severity warning or info never make a result invalid:
\* when every finding is one of out_of_bounds, null_geometry,
\* null_properties, unclosed_ring, duplicate_vertices, wrong_winding and
\* max_warnings_reached, none of them is an error, valid is true and every
\* processed feature is counted as valid.
C18_WarningsKeepValidity ==
    (HasReturned
        /\ \A j \in 1 .. Len(validation[1].warnings) :
               validation[1].warnings[j].warning_type \in NonErrorKinds)
        => /\ \A j \in 1 .. Len(validation[1].warnings) :
                  validation[1].warnings[j].severity \in {"warning", "info"}
           /\ validation[1].valid
           /\ validation[1].valid_feature_count = validation[1].feature_count

\* two processed features with warnings and notes only, then the limit
C18_Witness ==
    /\ HasReturned
    /\ geojson.type = "FeatureCollection"
    /\ validation[1].feature_count = 2
    /\ validation[1].valid_feature_count = 2
    /\ validation[1].valid
    /\ \E j \in 1 .. Len(validation[1].warnings) :
           validation[1].warnings[j].warning_type = "out_of_bounds"
    /\ \E j \in 1 .. Len(validation[1].warnings) :
           validation[1].warnings[j].warning_type = "null_geometry"
    /\ \E j \in 1 .. Len(validation[1].warnings) :
           validation[1].warnings[j].warning_type = "max_warnings_reached"

\* the sum of (x2 - x1) * (y2 + y1) over the first n - 1 pairs of
\* consecutive vertices of the ring
RECURSIVE ShoelaceSum(_, _)
ShoelaceSum(ring, n) ==
    IF n < 2
    THEN 0
    ELSE ShoelaceSum(ring, n - 1)
            + (ring[n][1] - ring[n - 1][1]) * (ring[n][2] + ring[n - 1][2])

\* C19: with check_winding on, a ring of 4 or more points counts as
\* counter-clockwise exactly when its shoelace sum is strictly negative; it
\* gets one wrong_winding finding when it is the exterior ring (index 0) and
\* counter-clockwise, or a hole (index 1 or more) and not counter-clockwise,
\* and none otherwise; the finding has severity info.
C19_WindingFindings ==
    (PolygonReturned /\ options.check_winding) =>
        \A k \in LongRings(InputRings) :
            LET ring == InputRings[k + 1]
                ccw == ShoelaceSum(ring, Len(ring)) < 0
                found == RingFindings(validation[1].warnings, "wrong_winding", k)
            IN /\ Cardinality(found)
                      = (IF (k = 0 /\ ccw) \/ (k >= 1 /\ ~ccw) THEN 1 ELSE 0)
               /\ \A j \in found : validation[1].warnings[j].severity = "info"

\* a clockwise exterior with a clockwise hole: one finding, for the hole
C19_Witness ==
    /\ PolygonReturned
    /\ options = DefaultOptions
    /\ Len(InputRings) = 2
    /\ InputRings[1] = CleanExterior
    /\ InputRings[2] = CleanExterior
    /\ Len(validation[1].warnings) = 1
    /\ validation[1].warnings[1].warning_type = "wrong_winding"
    /\ validation[1].warnings[1].message.args = <<1>>
    /\ validation[1].valid

\* C20: with check_closure on, a ring of 4 or more points gets exactly one
\* warning unclosed_ring, with its first and last point in the details, when
\* its first point differs from its last, and none when it is closed.
C20_ClosureFindings ==
    (PolygonReturned /\ options.check_closure) =>
        \A k \in LongRings(InputRings) :
            LET ring == InputRings[k + 1]
                found == RingFindings(validation[1].warnings, "unclosed_ring", k)
            IN /\ Cardinality(found)
                      = (IF ring[1] # ring[Len(ring)] THEN 1 ELSE 0)
               /\ \A j \in found :
                      /\ validation[1].warnings[j].severity = "warning"
                      /\ validation[1].warnings[j].details.first = Some(ring[1])
                      /\ validation[1].warnings[j].details.last
                             = Some(ring[Len(ring)])

\* an exterior of 4 points that ends away from its start
C20_Witness ==
    /\ PolygonReturned
    /\ options = DefaultOptions
    /\ InputRings = <<<<<<0, 0>>, <<0, 1>>, <<1, 0>>, <<0, 1>>>>>>
    /\ Len(validation[1].warnings) = 1
    /\ validation[1].warnings[1].warning_type = "unclosed_ring"
    /\ validation[1].warnings[1].details.first = <<<<0, 0>>>>
    /\ validation[1].warnings[1].details.last = <<<<0, 1>>>>

\* the lines of a bare LineString or MultiLineString handed to validate
InputLines ==
    IF geojson.type = "LineString"
    THEN <<OfLineString(geojson)>>
    ELSE OfPolygon(geojson)

\* the n smallest members of a set of numbers, in increasing order
RECURSIVE SmallestFirst(_, _)
SmallestFirst(D, n) ==
    IF n = 0 \/ D = {}
    THEN <<>>
    ELSE LET least == CHOOSE x \in D : \A y \in D : x <= y
         IN <<least>> \o SmallestFirst(D \ {least}, n - 1)

\* Python indices of the points of a line that equal their predecessor
OffendingIndices(coords) ==
    {i \in 1 .. Len(coords) - 1 : coords[i + 1] = coords[i]}

WithIndices(finding, indices) ==
    [kind |-> finding.kind, severity |-> finding.severity,
     about |-> finding.about, indices |-> indices]

RECURSIVE WithoutIndices(_)
WithoutIndices(findings) ==
    IF Len(findings) = 0
    THEN <<>>
    ELSE <<WithIndices(Head(findings), None)>> \o WithoutIndices(Tail(findings))

\* what the claim gives one line
ExpectedOfLine(coords) ==
    IF Len(coords) < 2
    THEN <<[kind |-> "insufficient_coordinates", severity |-> "error",
            about |-> "coordinate", indices |-> None]>>
    ELSE (IF options.check_coordinates
          THEN WithoutIndices(ExpectedOfCoordinates(coords))
          ELSE <<>>)
         \o
         (IF options.check_duplicates /\ OffendingIndices(coords) # {}
          THEN <<[kind |-> "duplicate_vertices", severity |-> "info",
                  about |-> "coordinate",
                  indices |-> Some(SmallestFirst(OffendingIndices(coords), 5))]>>
          ELSE <<>>)

RECURSIVE ExpectedOfLines(_)
ExpectedOfLines(lines) ==
    IF Len(lines) = 0
    THEN <<>>
    ELSE ExpectedOfLine(Head(lines)) \o ExpectedOfLines(Tail(lines))

\* the kinds of finding of the checks made on a line
LineCheckKinds ==
    {"insufficient_coordinates", "invalid_coordinate", "out_of_bounds",
     "duplicate_vertices"}

RECURSIVE LineFindings(_)
LineFindings(warns) ==
    IF Len(warns) = 0
    THEN <<>>
    ELSE (IF Head(warns).warning_type \in LineCheckKinds
          THEN <<WithIndices(AboutOf(Head(warns)),
                             Head(warns).details.duplicate_indices)>>
          ELSE <<>>)
            \o LineFindings(Tail(warns))

\* C21: a LineString, and each line of a MultiLineString, with fewer than 2
\* points yields exactly one error insufficient_coordinates and nothing else
\* for that line; any other line has every coordinate validated and, with
\* check_duplicates on, gets exactly one info duplicate_vertices when some
\* point equals its predecessor, whose details list at most the first 5
\* offending indices in increasing order.
C21_LineStringFindings ==
    (HasReturned /\ geojson.type \in {"LineString", "MultiLineString"})
        => LineFindings(validation[1].warnings) = ExpectedOfLines(InputLines)

\* the line with 6 duplicates: one finding that lists the first 5
C21_Witness ==
    /\ HasReturned
    /\ geojson = GeoLineString(SevenSamePoints)
    /\ options = DefaultOptions
    /\ Len(validation[1].warnings) = 1
    /\ validation[1].warnings[1].warning_type = "duplicate_vertices"
    /\ validation[1].warnings[1].severity = "info"
    /\ validation[1].warnings[1].details.duplicate_indices
           = <<<<1, 2, 3, 4, 5>>>>

\* the top-level types validate knows
KnownTypes ==
    {"FeatureCollection", "Feature", "Point", "MultiPoint", "LineString",
     "MultiLineString", "Polygon", "MultiPolygon", "GeometryCollection"}

\* C22: a top-level value whose type is none of FeatureCollection, Feature
\* and the seven geometry kinds, a missing type included, yields a result
\* with exactly one warning, an error of kind invalid_type, with no feature
\* counted and valid false.
C22_InvalidTopLevelType ==
    geojson.type \notin KnownTypes =>
        /\ vpc # "raised"
        /\ HasReturned =>
              /\ Len(validation[1].warnings) = 1
              /\ validation[1].warnings[1].warning_type = "invalid_type"
              /\ validation[1].warnings[1].severity = "error"
              /\ validation[1].feature_count = 0
              /\ validation[1].valid_feature_count = 0
              /\ ~validation[1].valid

\* a value without a type
C22_Witness ==
    /\ HasReturned
    /\ geojson = JsonObject(PyNone)
    /\ Len(validation[1].warnings) = 1
    /\ validation[1].warnings[1].warning_type = "invalid_type"
    /\ ~validation[1].valid

CollectionReturned == HasReturned /\ geojson.type = "FeatureCollection"

\* an entry of "features" that is an object of another type than "Feature"
Mistyped(entry) == entry.json = "object" /\ entry.type # "Feature"

\* positions in warns of the findings about the feature at Python index i
FindingsAbout(warns, i) ==
    {j \in 1 .. Len(warns) : warns[j].feature_index = Some(i)}

\* C23: a feature whose type is not "Feature" yields exactly one finding,
\* an error of kind invalid_feature that carries the feature's index and id;
\* its geometry and properties are not inspected. The result is invalid, and
\* the feature is counted in feature_count but not in valid_feature_count.
C23_InvalidFeature ==
    CollectionReturned =>
        LET warns == validation[1].warnings
            processed == 0 .. validation[1].feature_count - 1
            mistyped == {i \in processed : Mistyped(geojson.features[i + 1])}
        IN /\ \A i \in mistyped :
                 /\ Cardinality(FindingsAbout(warns, i)) = 1
                 /\ \A j \in FindingsAbout(warns, i) :
                        /\ warns[j].warning_type = "invalid_feature"
                        /\ warns[j].severity = "error"
                        /\ warns[j].feature_id = geojson.features[i + 1].id
           /\ mistyped # {} => ~validation[1].valid
           /\ validation[1].valid_feature_count
                  <= validation[1].feature_count - Cardinality(mistyped)
           /\ ~(\E j \in 1 .. Len(warns) :
                    warns[j].warning_type = "max_warnings_reached")
                  => validation[1].feature_count = Len(geojson.features)

\* a mistyped entry followed by a clean feature
C23_Witness ==
    /\ CollectionReturned
    /\ geojson.features = <<MistypedFeature, CleanFeature>>
    /\ options = DefaultOptions
    /\ Len(validation[1].warnings) = 1
    /\ validation[1].warnings[1].warning_type = "invalid_feature"
    /\ validation[1].warnings[1].feature_index = <<0>>
    /\ validation[1].warnings[1].feature_id = <<"b">>
    /\ validation[1].feature_count = 2
    /\ validation[1].valid_feature_count = 1
    /\ ~validation[1].valid

\* the validate call has ended, with a result or with an exception
Ended == vpc \in {"done", "raised"}

Toggles ==
    {"check_coordinates", "check_closure", "check_duplicates", "check_winding"}

\* the kinds of finding a toggle governs
KindsOf(toggle) ==
    CASE toggle = "check_coordinates" -> {"out_of_bounds", "invalid_coordinate"}
      [] toggle = "check_closure" -> {"unclosed_ring"}
      [] toggle = "check_duplicates" -> {"duplicate_vertices"}
      [] toggle = "check_winding" -> {"wrong_winding"}

\* the configuration with one toggle switched off
SwitchedOff(opts, toggle) ==
    CASE toggle = "check_coordinates" -> [opts EXCEPT !.check_coordinates = FALSE]
      [] toggle = "check_closure" -> [opts EXCEPT !.check_closure = FALSE]
      [] toggle = "check_duplicates" -> [opts EXCEPT !.check_duplicates = FALSE]
      [] toggle = "check_winding" -> [opts EXCEPT !.check_winding = FALSE]

\* the findings of a call that are not of the given kinds, in order; nothing
\* when the call raised
OtherFindings(outcome, kinds) ==
    IF outcome = None
    THEN None
    ELSE Some(SelectSeq(outcome[1].warnings,
                        LAMBDA w : w.warning_type \notin kinds))

\* C24: the check toggles are independent: with a toggle off no finding of
\* its kinds is produced, and switching one toggle off leaves the findings
\* of every other kind, and their order, as they were, for every input.
C24_TogglesIndependent ==
    Ended =>
        \A toggle \in Toggles :
            LET with == Validate(Self, geojson)
                without == Validate(GeometryValidator(
                                        SwitchedOff(options, toggle), shapely),
                                    geojson)
            IN /\ without # None =>
                     \A j \in 1 .. Len(without[1].warnings) :
                         without[1].warnings[j].warning_type \notin KindsOf(toggle)
               /\ OtherFindings(with, KindsOf(toggle))
                      = OtherFindings(without, KindsOf(toggle))

\* the kinds of finding the deep-validity check produces
DeepValidityKinds == {"invalid_geometry", "empty_geometry", "validation_error"}

\* the valid flag of a call, and its findings of the given kinds left out;
\* nothing when the call raised
ApartFrom(outcome, kinds) ==
    IF outcome = None
    THEN None
    ELSE Some([valid |-> outcome[1].valid,
               warnings |-> SelectSeq(outcome[1].warnings,
                                LAMBDA w : w.warning_type \notin kinds)])

\* the call made with the deep-validity check switched on or off and with
\* the given collaborator
WithCollaborator(check_validity, oracle) ==
    Validate(GeometryValidator([options EXCEPT !.check_validity = check_validity],
                               oracle),
             geojson)

\* C26: the deep-validity check is advisory: a raising collaborator gives an
\* info validation_error and validation goes on, every deep-validity finding
\* is a warning or an info, and with the collaborator absent, disabled,
\* working or failing the valid flag and the findings of all other kinds are
\* the same for every input.
C26_DeepValidityAdvisory ==
    Ended =>
        \A check_validity \in BOOLEAN, oracle \in ShapelyMenu :
            LET outcome == WithCollaborator(check_validity, oracle)
            IN /\ outcome # None =>
                     \A j \in 1 .. Len(outcome[1].warnings) :
                         LET w == outcome[1].warnings[j]
                         IN /\ w.warning_type \in DeepValidityKinds =>
                                  w.severity \in {"warning", "info"}
                            /\ w.warning_type = "validation_error" =>
                                  w.severity = "info"
               /\ ApartFrom(outcome, DeepValidityKinds)
                      = ApartFrom(Validate(Self, geojson), DeepValidityKinds)

\* positions in warns of the max_warnings_reached notice
Notices(warns) ==
    {k \in 1 .. Len(warns) : warns[k].warning_type = "max_warnings_reached"}

\* C30: in the result for a FeatureCollection the max_warnings_reached notice
\* appears at most once, only as the last warning and without a feature
\* index, and exactly when at least one feature was left unprocessed
\* (feature_count below the number of features); so a collection whose
\* warnings reach max_warnings only at its final feature gets no notice, and
\* with max_warnings = 0 a non-empty collection gives feature_count 0 and
\* valid true.
C30_CutoffNotice ==
    CollectionReturned =>
        LET warns == validation[1].warnings
            left == validation[1].feature_count < Len(geojson.features)
        IN /\ Cardinality(Notices(warns)) <= 1
           /\ \A k \in Notices(warns) :
                 /\ k = Len(warns)
                 /\ warns[k].feature_index = None
           /\ (Notices(warns) # {}) <=> left
           /\ (options.max_warnings = 0 /\ Len(geojson.features) > 0) =>
                 /\ validation[1].feature_count = 0
                 /\ validation[1].valid

\* a collection stopped after at least one feature, with the notice last
C30_Witness ==
    /\ CollectionReturned
    /\ 1 <= validation[1].feature_count
    /\ validation[1].feature_count < Len(geojson.features)
    /\ Notices(validation[1].warnings) = {Len(validation[1].warnings)}

\* C25: validate never modifies its input: no step of a call, whatever the
\* configuration and however the call ends (a result, the max_warnings
\* cutoff, an exception), changes the GeoJSON value it was given.
C25_InputUnchanged == [][geojson' = geojson]_vars

\* a call that returned on a polygon whose closing point repeats the point
\* before it, with the duplicates check on: line 495 has run
C25_Witness ==
    /\ HasReturned
    /\ geojson.type = "Polygon"
    /\ options.check_duplicates
    /\ \E k \in 1 .. Len(OfPolygon(geojson)) :
          /\ ~RingTooShort(OfPolygon(geojson)[k])
          /\ ClosingIsDuplicate(OfPolygon(geojson)[k],
                 FindConsecutiveDuplicates(OfPolygon(geojson)[k]))

----------------------------------------------------------------------------
(* Claims about the two TopoJSON decoders (Spec) *)

\* both calls have ended
BothEnded == pc \in {"done", "raised"} /\ legacy # None

\* C29: the two decoder implementations agree: for every topology and every
\* object_name, convert_topojson_to_geojson and TopoJSONConverter.convert
\* either both fail, or both succeed with the same FeatureCollection (the
\* same features, geometries, coordinates, properties and ids, in the same
\* order).
C29_DecodersAgree ==
    BothEnded =>
        /\ legacy[1].raised <=> pc = "raised"
        /\ pc = "done" => legacy[1].value = Some(result[1].geojson)

\* both succeeded on a line made of two arcs chained, the second one's
\* first point dropped, next to a feature with properties and an id
C29_Witness ==
    /\ BothEnded
    /\ pc = "done"
    /\ Len(result[1].geojson.features) = 2
    /\ \E k \in 1 .. 2 :
          /\ geometries[k] = WithId(LineString(<<0, 1>>), 8)
          /\ legacy[1].value[1].features[k].id = Some(8)
          /\ Len(legacy[1].value[1].features[k].geometry[1].coordinates[1][1]) > 5

----------------------------------------------------------------------------
(* TilesetUploader.upload_from_file                                        *)
(* (src/src/mapbox_tileset_uploader/uploader.py)                           *)
(*                                                                         *)
(*  - the file at file_path is what the converter makes of it: an          *)
(*    exception, or a ConversionResult;                                    *)
(*  - result.steps is the sequence of its keys in insertion order;         *)
(*  - an entry of result.warnings is the kind of finding it was made from  *)
(*    ("" for a conversion warning) and its message;                       *)
(*  - the tilesets CLI and the file system answer as they please;          *)
(*  - the recipe file of _create_tileset and _update_recipe is written and *)
(*    unlinked within the same step.                                       *)
(***************************************************************************)

\* the polls _wait_for_job makes before its timeout (600 s at 10 s a poll in
\* the code)
MaxPolls == 3

UploadTempFile == "upload.geojson"

\* ConversionResult (converters/base.py lines 11-27), as far as
\* upload_from_file reads it
ConversionResult(converted, warns) ==
    [geojson |-> converted, source_format |-> "GeoJSON", warnings |-> warns]

\* a file the converter fails on
Unreadable ==
    [readable |-> FALSE, conversion |-> ConversionResult(FeatureCollection(<<>>), <<>>)]

\* a file the converter turns into a ConversionResult
Readable(converted, warns) ==
    [readable |-> TRUE, conversion |-> ConversionResult(converted, warns)]

\* an entry of result.warnings
ResultWarning(warning_type, message) ==
    [warning_type |-> warning_type, message |-> message]

\* lines 183-189: result = UploadResult(success=False, ...)
NewUploadResult(dry) ==
    [success |-> FALSE, tileset_id |-> "user.tiles", source_id |-> "tiles",
     steps |-> <<>>, warnings |-> <<>>, validation_result |-> None,
     conversion_result |-> None, job_id |-> "", job_status |-> "",
     error |-> "", dry_run |-> dry]

\* lines 207-210: the findings that become entries of result.warnings
RECURSIVE ReportedWarnings(_)
ReportedWarnings(warns) ==
    IF Len(warns) = 0
    THEN <<>>
    ELSE (IF Head(warns).severity \in {"warning", "error"}
          THEN <<ResultWarning(Head(warns).warning_type, Head(warns).message)>>
          ELSE <<>>)
         \o ReportedWarnings(Tail(warns))

\* result.steps[name] = True
Recorded(res, name) == [res EXCEPT !.steps = Append(@, name)]

\* lines 260-261: except Exception as e: result.error = str(e)
Failed(res, message) == [res EXCEPT !.error = message]

\* lines 183-189: the call begins and the result is built
UploadBegin ==
    /\ upc = "call"
    /\ upload_result' = NewUploadResult(dry_run)
    /\ upc' = "convert"
    /\ UNCHANGED <<dry_run, validator, file_path, geojson_path, temp_files,
                   commands, pending, polls>>
    /\ UNCHANGED topojson
    /\ UNCHANGED convertVars
    /\ UNCHANGED arcVars
    /\ UNCHANGED legacyVars
    /\ UNCHANGED validateVars

\* lines 191-199: the converter is looked up and run
UploadConvert ==
    /\ upc = "convert"
    /\ IF ~file_path.readable
       THEN /\ upload_result' = Failed(upload_result, "conversion failed")
            /\ upc' = "done"
       ELSE /\ upload_result' =
                  Recorded([upload_result EXCEPT
                               !.conversion_result = Some(file_path.conversion),
                               !.warnings = @ \o file_path.conversion.warnings],
                           "convert")
            /\ upc' = "validate"
    /\ UNCHANGED <<dry_run, validator, file_path, geojson_path, temp_files,
                   commands, pending, polls>>
    /\ UNCHANGED topojson
    /\ UNCHANGED convertVars
    /\ UNCHANGED arcVars
    /\ UNCHANGED legacyVars
    /\ UNCHANGED validateVars

\* lines 201-210: the geometry validation, when the uploader has a validator
UploadValidate ==
    /\ upc = "validate"
    /\ IF validator = None
       THEN /\ upc' = "dry_run"
            /\ UNCHANGED upload_result
       ELSE \E outcome \in {Validate(validator[1], file_path.conversion.geojson)} :
               IF outcome = None
               THEN /\ upload_result' = Failed(upload_result, "validate raised")
                    /\ upc' = "done"
               ELSE /\ upload_result' =
                          [Recorded(upload_result, "validate") EXCEPT
                              !.validation_result = outcome,
                              !.warnings = @ \o ReportedWarnings(outcome[1].warnings)]
                    /\ upc' = "dry_run"
    /\ UNCHANGED <<dry_run, validator, file_path, geojson_path, temp_files,
                   commands, pending, polls>>
    /\ UNCHANGED topojson
    /\ UNCHANGED convertVars
    /\ UNCHANGED arcVars
    /\ UNCHANGED legacyVars
    /\ UNCHANGED validateVars

\* lines 212-214: if dry_run: result.success = True; return result
UploadDryRun ==
    /\ upc = "dry_run"
    /\ dry_run
    /\ upload_result' = [upload_result EXCEPT !.success = TRUE]
    /\ upc' = "done"
    /\ UNCHANGED <<dry_run, validator, file_path, geojson_path, temp_files,
                   commands, pending, polls>>
    /\ UNCHANGED topojson
    /\ UNCHANGED convertVars
    /\ UNCHANGED arcVars
    /\ UNCHANGED legacyVars
    /\ UNCHANGED validateVars

\* lines 216-225: the temporary file is created (delete=False) and the
\* GeoJSON is dumped into it; geojson_path is bound after the dump. Creating
\* the file can fail, and so can the dump once the file exists.
UploadWriteTemp ==
    /\ upc = "dry_run"
    /\ ~dry_run
    /\ \E outcome \in {"written", "dump failed", "not created"} :
          /\ temp_files' = IF outcome = "not created"
                           THEN temp_files
                           ELSE temp_files \cup {UploadTempFile}
          /\ IF outcome = "written"
             THEN /\ geojson_path' = Some(UploadTempFile)
                  /\ upc' = "upload_source"
                  /\ UNCHANGED upload_result
             ELSE /\ upload_result' = Failed(upload_result, outcome)
                  /\ upc' = "done"
                  /\ UNCHANGED geojson_path
    /\ UNCHANGED <<dry_run, validator, file_path, commands, pending, polls>>
    /\ UNCHANGED topojson
    /\ UNCHANGED convertVars
    /\ UNCHANGED arcVars
    /\ UNCHANGED legacyVars
    /\ UNCHANGED validateVars

\* lines 228-230 and _upload_source (lines 291-297)
UploadSource ==
    /\ upc = "upload_source"
    /\ commands' = Append(commands, "upload-source")
    /\ \E ok \in BOOLEAN :
          IF ok
          THEN /\ upload_result' = Recorded(upload_result, "upload_source")
               /\ upc' = "recipe"
               /\ UNCHANGED pending
          ELSE /\ pending' = "Tilesets command failed"
               /\ upc' = "finally"
               /\ UNCHANGED upload_result
    /\ UNCHANGED <<dry_run, validator, file_path, geojson_path, temp_files, polls>>
    /\ UNCHANGED topojson
    /\ UNCHANGED convertVars
    /\ UNCHANGED arcVars
    /\ UNCHANGED legacyVars
    /\ UNCHANGED validateVars

\* lines 232-241 with _tileset_exists, _update_recipe and _create_tileset
\* (lines 299-362): the status command tells whether the tileset exists
UploadRecipe ==
    /\ upc = "recipe"
    /\ \E exists \in BOOLEAN, ok \in BOOLEAN :
          /\ commands' = commands \o
                <<"status", IF exists THEN "update-recipe" ELSE "create">>
          /\ IF ok
             THEN /\ upload_result' =
                        Recorded(upload_result,
                                 IF exists THEN "update_recipe" ELSE "create_tileset")
                  /\ upc' = "publish"
                  /\ UNCHANGED pending
             ELSE /\ pending' = "Tilesets command failed"
                  /\ upc' = "finally"
                  /\ UNCHANGED upload_result
    /\ UNCHANGED <<dry_run, validator, file_path, geojson_path, temp_files, polls>>
    /\ UNCHANGED topojson
    /\ UNCHANGED convertVars
    /\ UNCHANGED arcVars
    /\ UNCHANGED legacyVars
    /\ UNCHANGED validateVars

\* lines 243-246 and _publish_tileset (lines 363-370): the job id is the
\* "jobId" of the command's output, or "" when there is none
UploadPublish ==
    /\ upc = "publish"
    /\ commands' = Append(commands, "publish")
    /\ \E ok \in BOOLEAN, job_id \in {"", "job-1"} :
          IF ok
          THEN /\ upload_result' =
                     [Recorded(upload_result, "publish") EXCEPT !.job_id = job_id]
               /\ upc' = "wait"
               /\ UNCHANGED pending
          ELSE /\ pending' = "Tilesets command failed"
               /\ upc' = "finally"
               /\ UNCHANGED upload_result
    /\ UNCHANGED <<dry_run, validator, file_path, geojson_path, temp_files, polls>>
    /\ UNCHANGED topojson
    /\ UNCHANGED convertVars
    /\ UNCHANGED arcVars
    /\ UNCHANGED legacyVars
    /\ UNCHANGED validateVars

\* lines 248-253: the job has ended with the given status
JobComplete(res, status) ==
    [Recorded(res, "job_complete") EXCEPT !.job_status = status,
                                          !.success = (status = "success")]

\* _wait_for_job (lines 380-397): one poll of the status command; a job that
\* is neither done nor failed is polled again after the sleep
UploadPoll ==
    /\ upc = "wait"
    /\ polls < MaxPolls
    /\ commands' = Append(commands, "status")
    /\ \E answer \in {"processing", "success", "failed"} :
          IF answer = "processing"
          THEN /\ polls' = polls + 1
               /\ UNCHANGED <<upload_result, upc>>
          ELSE /\ upload_result' =
                     JobComplete(upload_result,
                                 IF answer = "success" THEN "success"
                                 ELSE "failed: {message}")
               /\ upc' = "finally"
               /\ UNCHANGED polls
    /\ UNCHANGED <<dry_run, validator, file_path, geojson_path, temp_files, pending>>
    /\ UNCHANGED topojson
    /\ UNCHANGED convertVars
    /\ UNCHANGED arcVars
    /\ UNCHANGED legacyVars
    /\ UNCHANGED validateVars

\* _wait_for_job (lines 380 and 399): the time is up
UploadTimeout ==
    /\ upc = "wait"
    /\ polls = MaxPolls
    /\ upload_result' = JobComplete(upload_result, "timeout")
    /\ upc' = "finally"
    /\ UNCHANGED <<dry_run, validator, file_path, geojson_path, temp_files,
                   commands, pending, polls>>
    /\ UNCHANGED topojson
    /\ UNCHANGED convertVars
    /\ UNCHANGED arcVars
    /\ UNCHANGED legacyVars
    /\ UNCHANGED validateVars

\* lines 255-261: the finally block unlinks the file, and an exception on
\* its way is caught and kept in result.error
UploadFinally ==
    /\ upc = "finally"
    /\ temp_files' = temp_files \ {geojson_path[1]}
    /\ upload_result' = IF pending # ""
                        THEN Failed(upload_result, pending)
                        ELSE upload_result
    /\ pending' = ""
    /\ upc' = "done"
    /\ UNCHANGED <<dry_run, validator, file_path, geojson_path, commands, polls>>
    /\ UNCHANGED topojson
    /\ UNCHANGED convertVars
    /\ UNCHANGED arcVars
    /\ UNCHANGED legacyVars
    /\ UNCHANGED validateVars

----------------------------------------------------------------------------
(* Inputs of upload_from_file *)

\* files the converter fails on, and files it turns into a collection that
\* is clean, has a warning, has an error, or makes validate raise; the last
\* one comes with a conversion warning
UploadFiles ==
    {Unreadable,
     Readable(FeatureCollection(<<CleanFeature>>), <<>>),
     Readable(FeatureCollection(<<CleanFeature, OutOfBoundsFeature>>), <<>>),
     Readable(FeatureCollection(<<MistypedFeature>>), <<>>),
     Readable(FeatureCollection(<<CleanFeature, NotAMapping>>), <<>>),
     Readable(FeatureCollection(<<LimitTestFeature>>),
              <<ResultWarning("",
                    Message("Wrapped single Feature in FeatureCollection", <<>>))>>)}

\* TilesetUploader.__init__ (line 109): GeometryValidator() if
\* validate_geometry else None, with shapely missing or installed
Validators ==
    {None,
     Some(GeometryValidator(DefaultOptions, NotInstalled)),
     Some(GeometryValidator(DefaultOptions, Shapely(TRUE, FALSE, FALSE, FALSE)))}

UploadInit ==
    /\ upc = "call"
    /\ dry_run \in BOOLEAN
    /\ validator \in Validators
    /\ file_path \in UploadFiles
    /\ upload_result = None
    /\ geojson_path = None
    /\ temp_files = {}
    /\ commands = <<>>
    /\ pending = ""
    /\ polls = 0
    /\ topojson = NoTopology
    /\ ConvertIdle
    /\ ArcsIdle
    /\ LegacyIdle
    /\ ValidateIdle

UploadNext ==
    \/ UploadBegin
    \/ UploadConvert
    \/ UploadValidate
    \/ UploadDryRun
    \/ UploadWriteTemp
    \/ UploadSource
    \/ UploadRecipe
    \/ UploadPublish
    \/ UploadPoll
    \/ UploadTimeout
    \/ UploadFinally

UploadSpec == UploadInit /\ [][UploadNext]_vars

----------------------------------------------------------------------------
(* Claims about upload_from_file (UploadSpec) *)

\* upload_from_file has returned its result
UploadDone == upc = "done"

\* the conversion succeeded
Converted == upload_result # None /\ upload_result.conversion_result # None

\* the steps a dry run records
DryRunSteps ==
    IF validator = None THEN <<"convert">> ELSE <<"convert", "validate">>

\* C27: with dry_run = True upload_from_file validates but does not upload:
\* whenever the conversion succeeds it returns success = True with
\* dry_run = True and only the steps convert (and validate when the
\* validation is enabled), and it never runs a tilesets command nor writes
\* the upload temp file, whatever the validation finds.
C27_DryRun ==
    dry_run =>
        /\ commands = <<>>
        /\ temp_files = {}
        /\ (UploadDone /\ Converted) =>
              /\ upload_result.success
              /\ upload_result.dry_run
              /\ upload_result.steps = DryRunSteps

IsPrefix(s, t) == Len(s) <= Len(t) /\ SubSeq(t, 1, Len(s)) = s

\* the steps of a complete upload, recipe being update_recipe or
\* create_tileset
AllSteps(recipe) ==
    DryRunSteps \o <<"upload_source", recipe, "publish", "job_complete">>

Has(seq, e) == \E k \in 1 .. Len(seq) : seq[k] = e

\* what C28 says of every state of a call that is not a dry run
C28_State ==
    (~dry_run /\ upload_result # None) =>
        /\ \E recipe \in {"update_recipe", "create_tileset"} :
              IsPrefix(upload_result.steps, AllSteps(recipe))
        /\ Has(upload_result.steps, "update_recipe") =>
              Has(commands, "update-recipe") /\ ~Has(commands, "create")
        /\ Has(upload_result.steps, "create_tileset") =>
              Has(commands, "create") /\ ~Has(commands, "update-recipe")
        /\ upload_result.error # "" => ~upload_result.success
        /\ UploadDone => temp_files = {}
        /\ upload_result.success =>
              /\ Has(upload_result.steps, "job_complete")
              /\ upload_result.job_status = "success"

\* what C28 says of every step: once a failure is on its way or recorded, no
\* step is recorded any more
C28_Step ==
    (~dry_run /\ upload_result # None
        /\ (pending # "" \/ upload_result.error # "")) =>
            upload_result'.steps = upload_result.steps

\* C28: in an upload_from_file that is not a dry run the steps are recorded
\* only in the order convert, validate (if enabled), upload_source, one of
\* update_recipe (the tileset exists) or create_tileset (it does not),
\* publish, job_complete; a failure at any step ends up in result.error
\* without propagating, with success False and no later step; the temporary
\* GeoJSON file is removed on every path once it was created; and success is
\* True only if job_complete was recorded with the job status "success".
C28_UploadSteps == [](C28_State) /\ [][C28_Step]_vars

====
